---- MODULE Spec2Model ----
(***************************************************************************)
(* s3ar: a model of the retry envelope (utils.rs), the mmap chunker        *)
(* (mmap.rs), the upload parts iterator and the upload pipeline            *)
(* (create.rs, chan_exec.rs) and the download pipeline (extract.rs,        *)
(* file_entry.rs).                                                         *)
(***************************************************************************)
EXTENDS Integers, Sequences, FiniteSets, TLC

(***************************************************************************)
(* Bounds of the model.                                                    *)
(***************************************************************************)
MaxRetryMax == 3
MaxWaitBase == 2
MaxWaitMax == 3
BigWaitBase == 65536
MaxLen == 4
MaxPartSize == 3
MaxCalls == 3
MaxSize == 3
MaxFiles == 2
UpMaxPartSize == 2
MaxQueue == 2
MaxPartConc == 2
MaxFileConc == 2
MaxDlSize == 2
MaxStorePartLen == 2
MaxStoreParts == 2
BpSizeA == 9
BpSizeB == 3
MaxClones == 3
MaxExecQueue == 2
MaxExecLimit == 2

(***************************************************************************)
(* Program constants.                                                      *)
(***************************************************************************)
RETRY_MAX == 10
WAIT_BASE == 1
WAIT_MAX == 5

(***************************************************************************)
(* Option<T>: None is the empty sequence, Some(x) the one-element one.     *)
(***************************************************************************)
None == << >>
Some(x) == << x >>
IsSome(o) == o # << >>
Unwrap(o) == o[1]

Min(a, b) == IF a <= b THEN a ELSE b

\* u32 arithmetic. A u32 is kept as its two 16-bit halves, so that the values
\* up to 2^32 - 1 and their wrap-around are exact.
HALF == 65536
U32(n) == [hi |-> n \div HALF, lo |-> n % HALF]

\* u32::overflowing_add
overflowing_add(x, y) ==
    LET lo == x.lo + y.lo
        hi == x.hi + y.hi + (lo \div HALF)
    IN  [v |-> [hi |-> hi % HALF, lo |-> lo % HALF], ovf |-> hi >= HALF]

\* x * k for a u32 x and 0 <= k <= LIMB: both halves' products fit
LIMB == 16384
MulLimb(x, k) ==
    LET lo == x.lo * k
        hi == x.hi * k + (lo \div HALF)
    IN  [v |-> [hi |-> hi % HALF, lo |-> lo % HALF], ovf |-> hi >= HALF]

\* u32::overflowing_mul of a u32 x and a multiplier 0 <= n < LIMB * LIMB:
\* x * n = (x * (n \div LIMB)) * LIMB + x * (n % LIMB)
overflowing_mul(x, n) ==
    LET t == MulLimb(x, n \div LIMB)
        u == MulLimb(t.v, LIMB)
        w == MulLimb(x, n % LIMB)
        a == overflowing_add(u.v, w.v)
    IN  [v |-> a.v, ovf |-> t.ovf \/ u.ovf \/ w.ovf \/ a.ovf]

\* u32::overflowing_mul of two u32: x * y = x * y.lo + (x * y.hi) * HALF
mul32(x, y) ==
    LET a == overflowing_mul(x, y.lo)
        b == overflowing_mul(x, y.hi)
        s == overflowing_add(a.v, [hi |-> b.v.lo, lo |-> 0])
    IN  [v |-> s.v, ovf |-> a.ovf \/ b.ovf \/ b.v.hi # 0 \/ s.ovf]

\* u32::pow, by squaring as the standard library computes it: the wrapped
\* power and whether a multiplication overflowed (exactly when b^e >= 2^32)
RECURSIVE pow_loop(_, _, _, _)
pow_loop(base, acc, exp, ovf) ==
    IF exp > 1
      THEN LET a == IF exp % 2 = 1 THEN mul32(acc, base) ELSE [v |-> acc, ovf |-> FALSE]
               b == mul32(base, base)
           IN  pow_loop(b.v, a.v, exp \div 2, ovf \/ a.ovf \/ b.ovf)
      ELSE IF exp = 1
        THEN LET a == mul32(acc, base) IN [v |-> a.v, ovf |-> ovf \/ a.ovf]
        ELSE [v |-> acc, ovf |-> ovf]
overflowing_pow(b, e) == pow_loop(U32(b), U32(1), e, FALSE)

\* cmp::min of a bound below 2^31 and a u32
MinU32(bound, x) ==
    IF x.hi >= HALF \div 2 THEN bound ELSE Min(bound, x.hi * HALF + x.lo)

(***************************************************************************)
(* Text is a sequence of one-character strings.                            *)
(***************************************************************************)
TAB == "\t"
NL == "\n"
Digits == << "0", "1", "2", "3", "4", "5", "6", "7", "8", "9" >>

\* format!("{}", n) of an unsigned integer
RECURSIVE ToDec(_)
ToDec(n) == IF n < 10 THEN << Digits[n + 1] >>
                      ELSE ToDec(n \div 10) \o << Digits[(n % 10) + 1] >>

DigitVal(c) == CHOOSE d \in 0..9 : Digits[d + 1] = c
IsDigit(c) == \E d \in 0..9 : Digits[d + 1] = c

\* str::parse::<usize>: the number, or -1 for Err (one leading "+" is accepted)
RECURSIVE ParseDigits(_, _)
ParseDigits(s, acc) ==
    IF s = << >> THEN acc
    ELSE IF IsDigit(Head(s)) THEN ParseDigits(Tail(s), acc * 10 + DigitVal(Head(s)))
    ELSE 0 - 1
ParseUsize(s) ==
    LET t == IF s # << >> /\ Head(s) = "+" THEN Tail(s) ELSE s
    IN  IF t = << >> THEN 0 - 1 ELSE ParseDigits(t, 0)

\* str::split(sep): the fields between every occurrence of sep
RECURSIVE SplitAcc(_, _, _)
SplitAcc(s, sep, cur) ==
    IF s = << >> THEN << cur >>
    ELSE IF Head(s) = sep THEN << cur >> \o SplitAcc(Tail(s), sep, << >>)
    ELSE SplitAcc(Tail(s), sep, Append(cur, Head(s)))
Split(s, sep) == SplitAcc(s, sep, << >>)

\* AsyncBufReadExt::lines: the lines of a text, each without its newline
Lines(s) ==
    LET f == Split(s, NL)
    IN  IF f[Len(f)] = << >> THEN SubSeq(f, 1, Len(f) - 1) ELSE f

RECURSIVE Concat(_)
Concat(ss) == IF ss = << >> THEN << >> ELSE Head(ss) \o Concat(Tail(ss))

VARIABLES
    \* with_retry (utils.rs)
    overflow_checks, \* whether the build panics on integer overflow
    rt_params,      \* [retry_max, wait_base, wait_max]
    rt_fails,       \* the operation fails on its first rt_fails invocations (ALWAYS: on all)
    rt_retry,       \* the local `retry`
    rt_pc,          \* "call" | "sleep" | "ok" | "err" | "panic"
    rt_calls,       \* number of invocations of f so far
    rt_sleeps,      \* the durations slept, in order
    rt_ret,         \* what the envelope returned: the invocation whose result it is
    \* Chunker / PartUploadBodies (mmap.rs, create.rs)
    ck_len,         \* the handle's len
    ck_mode,        \* "parts": driven by PartUploadBodies::next; "free": by take_chunk calls
    ck_pb,          \* PartUploadBodies [part_size, mmap_chunker]
    ck_issued,      \* the chunks issued so far, in order
    ck_done,        \* next() has returned None
    ck_panicked,    \* the assert of take_chunk failed
    \* the store (S3) and the source directory
    s3_faults,      \* whether S3 calls may fail
    s3_uploads,     \* multipart uploads in progress: upload_id -> [key, parts]
    s3_objects,     \* key -> [parts: the bodies of the object's parts, in order]
    src_files,      \* the regular files of the walked tree: a set of FileEntry
    \* the upload pipeline (create.rs, chan_exec.rs)
    cfg,            \* ArchiveCreate: part_size, part_queue_size, part_concurrency, file_concurrency
    to_walk,        \* entries read_dir_recur has not emitted yet
    up,             \* path -> the state of the file's MultipartUploadExecutor::execute
    queue,          \* the mpsc channel of chan_exec: (task, reply) pairs
    workers,        \* the worker futures try_for_each_concurrent is running
    manifest,       \* the accumulator of try_fold
    done_order,     \* the entries in the order their uploads completed
    main_pc,        \* main_fut: "files" | "ok" | "err"
    pump_pc,        \* part_upload_fut: "run" | "ok" | "dropped"
    up_result,      \* CreateExecutor::execute: "idle" | "pending" | "ok" | "err"
    \* the download pipeline (extract.rs) and the destination directory
    dn_cfg,         \* ArchiveExtract: file_concurrency, part_concurrency
    dst,            \* the destination directory: path -> the file's bytes
    dn_lines,       \* the lines of the manifest body
    dn_pulled,      \* how many of them try_buffer_unordered has pulled
    dn_buf,         \* the per-file futures try_buffer_unordered(file_concurrency) holds
    dn_cur,         \* the part stream try_flatten is consuming: Option of
                    \* [path, key, chunker, state]
    dn_copies,      \* the copy futures try_for_each_concurrent is running
    dn_gets,        \* the GetObject requests for parts issued, in order: [key, part_number]
    dn_result,      \* ExtractExecutor::execute:
                    \* "idle" | "manifest" | "run" | "ok" | "err" | "panic"
    \* the executor of chan_exec.rs with any submitters and the driver of its pump
    ce_cfg,         \* [queue_size, limit]: create(queue_size), try_for_each_concurrent(limit)
    ce_sub,         \* ChanExec clone -> [pc, ret, pump_at_call]: its call of execute,
                    \* pc "idle" | "sending" | "waiting" | "ret" | "gone"
    ce_queue,       \* the mpsc channel: (task, cb) pairs
    ce_workers,     \* the worker futures the driver is running: (task, cb) pairs
    ce_enqueued,    \* the tasks in the order they entered the channel
    ce_started,     \* the tasks in the order they were handed to a worker
    ce_done,        \* the tasks that produced their output: [task, cb, delivered]
    ce_pump,        \* the driver of the pump: "idle" | "run" | "ok" | "err" | "dropped"
    \* the Err a pipeline's execute returned (error.rs)
    err             \* Option of [kind, call, invocations]: the variant of Error,
                    \* the call that failed and how many times it was invoked

rtVars == << overflow_checks, rt_params, rt_fails, rt_retry, rt_pc, rt_calls, rt_sleeps, rt_ret >>
ckVars == << ck_len, ck_mode, ck_pb, ck_issued, ck_done, ck_panicked >>
s3Vars == << s3_faults, s3_uploads, s3_objects, src_files >>
dnVars == << dn_cfg, dst, dn_lines, dn_pulled, dn_buf, dn_cur, dn_copies, dn_gets, dn_result >>
ceVars == << ce_cfg, ce_sub, ce_queue, ce_workers, ce_enqueued, ce_started, ce_done, ce_pump >>
otherThanRetry == << ckVars, s3Vars, cfg, to_walk, up, queue, workers, manifest,
                    done_order, main_pc, pump_pc, up_result, dnVars, ceVars, err >>
otherThanChunker == << rtVars, s3Vars, cfg, to_walk, up, queue, workers, manifest,
                      done_order, main_pc, pump_pc, up_result, dnVars, ceVars, err >>
notUpload == << rtVars, ckVars, dnVars, ceVars >>
otherThanUpload == << notUpload, err >>
upVars == << cfg, to_walk, up, queue, workers, manifest, done_order, main_pc,
             pump_pc, up_result >>
vars == << rtVars, ckVars, s3Vars, upVars, dnVars, ceVars, err >>

(***************************************************************************)
(* utils.rs: with_retry                                                    *)
(***************************************************************************)
ALWAYS == 0 - 1

\* f() fails on its i-th invocation
OpFails(fails, i) == fails = ALWAYS \/ i <= fails

\* utils.rs:23  if retry > retry_max { return Err(e) }
RetryExhausted(retry, retry_max) == retry > retry_max

\* utils.rs:26  wait_base.pow(retry) overflows u32: a panic in a build with
\* overflow checks, a wrapped value in one without
WaitOverflows(wait_base, retry) == overflowing_pow(wait_base, retry).ovf

\* utils.rs:26  cmp::min(wait_max, wait_base.pow(retry)), the power wrapped
Wait_linear(wait_base, wait_max, retry) == Min(wait_max, wait_base * retry)
Wait(wait_base, wait_max, retry) == MinU32(wait_max, overflowing_pow(wait_base, retry).v)

SystemParams == [retry_max |-> RETRY_MAX, wait_base |-> WAIT_BASE, wait_max |-> WAIT_MAX]

RetryParams ==
    [retry_max : 0..MaxRetryMax, wait_base : (0..MaxWaitBase) \cup {BigWaitBase},
     wait_max : 0..MaxWaitMax]
        \cup {SystemParams}

RetryIdle ==
    /\ overflow_checks = FALSE
    /\ rt_params = SystemParams
    /\ rt_fails = 0
    /\ rt_retry = 0
    /\ rt_pc = "idle"
    /\ rt_calls = 0
    /\ rt_sleeps = << >>
    /\ rt_ret = 0

RetryInit ==
    /\ overflow_checks \in BOOLEAN
    /\ rt_params \in RetryParams
    /\ rt_fails \in (0..(rt_params.retry_max + 1)) \cup {ALWAYS}
    /\ rt_retry = 0
    /\ rt_pc = "call"
    /\ rt_calls = 0
    /\ rt_sleeps = << >>
    /\ rt_ret = 0

\* f().await returned Ok(r): return Ok(r)
RetryCallOk ==
    /\ rt_pc = "call"
    /\ ~OpFails(rt_fails, rt_calls + 1)
    /\ rt_calls' = rt_calls + 1
    /\ rt_ret' = rt_calls + 1
    /\ rt_pc' = "ok"
    /\ UNCHANGED << overflow_checks, rt_params, rt_fails, rt_retry, rt_sleeps >>
    /\ UNCHANGED otherThanRetry

\* f().await returned Err(e): retry += 1, then return Err(e) or go to sleep
RetryCallErr ==
    /\ rt_pc = "call"
    /\ OpFails(rt_fails, rt_calls + 1)
    /\ rt_calls' = rt_calls + 1
    /\ rt_retry' = rt_retry + 1
    /\ IF RetryExhausted(rt_retry', rt_params.retry_max)
         THEN rt_pc' = "err" /\ rt_ret' = rt_calls + 1
         ELSE rt_pc' = "sleep" /\ rt_ret' = rt_ret
    /\ UNCHANGED << overflow_checks, rt_params, rt_fails, rt_sleeps >>
    /\ UNCHANGED otherThanRetry

\* utils.rs:26  the multiplication of pow overflows under overflow checks
RetryPanic ==
    /\ rt_pc = "sleep"
    /\ overflow_checks /\ WaitOverflows(rt_params.wait_base, rt_retry)
    /\ rt_pc' = "panic"
    /\ UNCHANGED << overflow_checks, rt_params, rt_fails, rt_retry, rt_calls, rt_sleeps,
                    rt_ret >>
    /\ UNCHANGED otherThanRetry

\* utils.rs:26-28  delay_for(Duration::from_secs(wait)).await
RetrySleep ==
    /\ rt_pc = "sleep"
    /\ ~(overflow_checks /\ WaitOverflows(rt_params.wait_base, rt_retry))
    /\ rt_sleeps' = Append(rt_sleeps,
                           Wait(rt_params.wait_base, rt_params.wait_max, rt_retry))
    /\ rt_pc' = "call"
    /\ UNCHANGED << overflow_checks, rt_params, rt_fails, rt_retry, rt_calls, rt_ret >>
    /\ UNCHANGED otherThanRetry

\* The envelope as a function of the number of leading failures of f:
\* [ok, calls, sleeps], computed by running the loop of with_retry. It is used
\* with the parameters of the call sites, whose power 1^retry never overflows.
RECURSIVE with_retry_loop(_, _, _)
with_retry_loop(params, fails, st) ==
    IF ~OpFails(fails, st.calls + 1)
      THEN [ok |-> TRUE, calls |-> st.calls + 1, sleeps |-> st.sleeps]
      ELSE IF RetryExhausted(st.retry + 1, params.retry_max)
             THEN [ok |-> FALSE, calls |-> st.calls + 1, sleeps |-> st.sleeps]
             ELSE with_retry_loop(params, fails,
                    [retry |-> st.retry + 1, calls |-> st.calls + 1,
                     sleeps |-> Append(st.sleeps,
                         Wait(params.wait_base, params.wait_max, st.retry + 1))])

with_retry(params, fails) ==
    with_retry_loop(params, fails, [retry |-> 0, calls |-> 0, sleeps |-> << >>])

(***************************************************************************)
(* mmap.rs: Chunker, Chunk                                                 *)
(***************************************************************************)
\* mmap.rs:56  Chunker::new
Chunker_new(len) == [len |-> len, offset |-> 0]

\* mmap.rs:63  Chunker::size
size(c) == c.len - c.offset

\* mmap.rs:68  assert!(self.size() >= len)
take_chunk_assert_none(c, len) == TRUE
take_chunk_assert(c, len) == size(c) >= len

\* mmap.rs:67  Chunker::take_chunk: the chunk, and the chunker after the call
take_chunk_stuck(c, len) ==
    [chunk |-> [offset |-> c.offset, len |-> len], chunker |-> c]
take_chunk(c, len) ==
    [chunk |-> [offset |-> c.offset, len |-> len],
     chunker |-> [c EXCEPT !.offset = c.offset + len]]

(***************************************************************************)
(* create.rs: MultipartUpload::parts, PartUploadBodies                     *)
(***************************************************************************)
\* create.rs:273  MultipartUpload::parts
parts(part_size, len) ==
    [part_size |-> part_size, mmap_chunker |-> Some(Chunker_new(len))]

\* create.rs:311  PartUploadBodies::next: [item, pb]; item is None at the end
next_skip_empty(pb) ==
    IF ~IsSome(pb.mmap_chunker) \/ size(Unwrap(pb.mmap_chunker)) = 0
      THEN [item |-> None, pb |-> [pb EXCEPT !.mmap_chunker = None]]
      ELSE LET c == Unwrap(pb.mmap_chunker)
               t == take_chunk(c, Min(pb.part_size, size(c)))
           IN  [item |-> Some(t.chunk),
                pb |-> [pb EXCEPT !.mmap_chunker =
                           IF size(t.chunker) = 0 THEN None ELSE Some(t.chunker)]]
next(pb) ==
    IF ~IsSome(pb.mmap_chunker)
      THEN [item |-> None, pb |-> pb]
      ELSE LET c == Unwrap(pb.mmap_chunker)
               t == take_chunk(c, Min(pb.part_size, size(c)))
           IN  [item |-> Some(t.chunk),
                pb |-> [pb EXCEPT !.mmap_chunker =
                           IF size(t.chunker) = 0 THEN None ELSE Some(t.chunker)]]

ChunkerIdle ==
    /\ ck_len = 0
    /\ ck_mode = "idle"
    /\ ck_pb = parts(1, 0)
    /\ ck_issued = << >>
    /\ ck_done = FALSE
    /\ ck_panicked = FALSE

\* A handle of any length; either the upload's iterator with any part_size >= 1,
\* or a bare Chunker driven by take_chunk calls (part_size is then unused).
ChunkerInit ==
    /\ ck_len \in 0..MaxLen
    /\ ck_mode \in {"parts", "free"}
    /\ \E ps \in 1..MaxPartSize :
          /\ ck_mode = "free" => ps = 1
          /\ ck_pb = parts(ps, ck_len)
    /\ ck_issued = << >>
    /\ ck_done = FALSE
    /\ ck_panicked = FALSE

\* One call of PartUploadBodies::next that yields a part (the calls are
\* followed up to MaxLen + 1 parts, more than any part_size >= 1 yields)
PartsNextSome ==
    /\ ck_mode = "parts" /\ ~ck_done
    /\ Len(ck_issued) <= MaxLen
    /\ LET r == next(ck_pb) IN
          /\ IsSome(r.item)
          /\ ck_issued' = Append(ck_issued, Unwrap(r.item))
          /\ ck_pb' = r.pb
    /\ UNCHANGED << ck_len, ck_mode, ck_done, ck_panicked >>
    /\ UNCHANGED otherThanChunker

\* The call of PartUploadBodies::next that returns None
PartsNextNone ==
    /\ ck_mode = "parts" /\ ~ck_done
    /\ LET r == next(ck_pb) IN
          /\ ~IsSome(r.item)
          /\ ck_pb' = r.pb
    /\ ck_done' = TRUE
    /\ UNCHANGED << ck_len, ck_mode, ck_issued, ck_panicked >>
    /\ UNCHANGED otherThanChunker

\* One call of Chunker::take_chunk(len) that passes the assert
TakeChunk ==
    /\ ck_mode = "free" /\ ~ck_panicked
    /\ Len(ck_issued) < MaxCalls
    /\ \E len \in 0..(MaxLen + 1) :
          LET c == Unwrap(ck_pb.mmap_chunker) IN
          /\ take_chunk_assert(c, len)
          /\ LET t == take_chunk(c, len) IN
                /\ ck_issued' = Append(ck_issued, t.chunk)
                /\ ck_pb' = [ck_pb EXCEPT !.mmap_chunker = Some(t.chunker)]
    /\ UNCHANGED << ck_len, ck_mode, ck_done, ck_panicked >>
    /\ UNCHANGED otherThanChunker

\* One call of Chunker::take_chunk(len) whose assert fails: the thread panics
TakeChunkPanic ==
    /\ ck_mode = "free" /\ ~ck_panicked
    /\ Len(ck_issued) < MaxCalls
    /\ \E len \in 0..(MaxLen + 1) :
          ~take_chunk_assert(Unwrap(ck_pb.mmap_chunker), len)
    /\ ck_panicked' = TRUE
    /\ UNCHANGED << ck_len, ck_mode, ck_pb, ck_issued, ck_done >>
    /\ UNCHANGED otherThanChunker

(***************************************************************************)
(* key_resolver.rs                                                         *)
(***************************************************************************)
DATA_DIR == << "d", "a", "t", "a", "/" >>
MANIFEST_NAME == << "m", "a", "n", "i", "f", "e", "s", "t" >>

\* key_resolver.rs:1  format!("{}data/{}", s3_prefix, path)
data_key(s3_prefix, path) == s3_prefix \o DATA_DIR \o path

\* key_resolver.rs:5  format!("{}manifest", s3_prefix)
manifest_key(s3_prefix) == s3_prefix \o MANIFEST_NAME

\* the TARGET_PREFIX / SOURCE_PREFIX argument
S3_PREFIX == << "p", "/" >>

(***************************************************************************)
(* The walked tree: regular files with a path and a size. The byte at      *)
(* offset i of the file at a path is Content(path, i): every byte of every *)
(* file is different, so a misplaced byte shows.                           *)
(***************************************************************************)
PathSeq == << << "a" >>, << "b", TAB, "c" >>, << "b" >> >>
Paths == { PathSeq[i] : i \in 1..Len(PathSeq) }
PathCode(path) == CHOOSE i \in 1..Len(PathSeq) : PathSeq[i] = path
Content(path, i) == PathCode(path) * 10 + i + 1

\* file_entry.rs:46  FileEntry::new
FileEntry_new(path, sz) == [path |-> path, size |-> sz]

FileBytes(e) == [i \in 1..e.size |-> Content(e.path, i - 1)]

\* Deref for Chunk (mmap.rs:86): the bytes of the mapping the chunk views
ChunkBytes(bytes, chunk) == SubSeq(bytes, chunk.offset + 1, chunk.offset + chunk.len)

AllEntries == { FileEntry_new(path, sz) : path \in Paths, sz \in 0..MaxSize }
FileSets ==
    { S \in SUBSET AllEntries :
        /\ Cardinality(S) <= MaxFiles
        /\ \A e1, e2 \in S : e1.path = e2.path => e1 = e2 }

(***************************************************************************)
(* The store. An e_tag is the digest of the part's body.                   *)
(***************************************************************************)
ETag(body) == << "md5", body >>

NoParts == [n \in {} |-> 0]

\* CreateMultipartUpload: a new upload with a fresh upload_id
S3CreateMultipartUpload(uploads, key) == Append(uploads, [key |-> key, parts |-> NoParts])

\* UploadPart: the part is stored (again) under its number
S3UploadPart(uploads, req) ==
    [uploads EXCEPT ![req.upload_id].parts =
        [n \in DOMAIN @ \cup {req.part_number} |->
            IF n = req.part_number THEN [e_tag |-> ETag(req.body), body |-> req.body]
                                   ELSE @[n]]]

\* CompleteMultipartUpload is accepted when the list names at least one part, in
\* ascending order of part_number, each with the e_tag of the stored part
S3CompleteValid(uploads, req) ==
    /\ req.upload_id \in DOMAIN uploads
    /\ uploads[req.upload_id].key = req.key
    /\ req.parts # << >>
    /\ \A i \in 1..Len(req.parts) :
          /\ req.parts[i].part_number \in DOMAIN uploads[req.upload_id].parts
          /\ uploads[req.upload_id].parts[req.parts[i].part_number].e_tag = req.parts[i].e_tag
          /\ i > 1 => req.parts[i - 1].part_number < req.parts[i].part_number

\* The object CompleteMultipartUpload assembles
S3CompletedObject(uploads, req) ==
    [parts |-> [i \in 1..Len(req.parts) |->
                   uploads[req.upload_id].parts[req.parts[i].part_number].body]]

S3Put(objects, key, obj) ==
    [k \in DOMAIN objects \cup {key} |-> IF k = key THEN obj ELSE objects[k]]

NoObjects == [k \in {} |-> 0]

\* The numbers of leading failures an S3 call wrapped in with_retry may meet
FailChoices == IF s3_faults THEN (0..(RETRY_MAX + 1)) ELSE {0}

\* with_retry(10, 1, 5, ..) by the number of leading failures of the call
SystemRetry ==
    [fails \in (0..(RETRY_MAX + 1)) \cup {ALWAYS} |-> with_retry(SystemParams, fails)]

RetriedCallCanSucceed == { fails \in FailChoices : SystemRetry[fails].ok } # {}
RetriedCallCanFail == { fails \in FailChoices : ~SystemRetry[fails].ok } # {}

\* error.rs:42  Error::Rusoto of a call that with_retry gave up on, with the
\* number of invocations the envelope made
RetriedCallErrors(call) ==
    { [kind |-> "Rusoto", call |-> call, invocations |-> SystemRetry[fails].calls] :
        fails \in { f \in FailChoices \cup {ALWAYS} : ~SystemRetry[f].ok } }

\* error.rs:42  Error::Rusoto of a call made once, outside with_retry
BareCallError(call) == [kind |-> "Rusoto", call |-> call, invocations |-> 1]

(***************************************************************************)
(* create.rs: the upload pipeline                                          *)
(***************************************************************************)
\* create.rs:191  try_buffer_unordered(8)
INNER_BUFFER == 8

Configs ==
    [part_size : 1..UpMaxPartSize, part_queue_size : 1..MaxQueue,
     part_concurrency : 1..MaxPartConc, file_concurrency : 1..MaxFileConc]

\* create.rs:195  completed_parts.sort_by_key(|part| part.part_number)
RECURSIVE InsertByKey(_, _)
InsertByKey(sorted, x) ==
    IF sorted = << >> THEN << x >>
    ELSE IF Head(sorted).part_number <= x.part_number
           THEN << Head(sorted) >> \o InsertByKey(Tail(sorted), x)
           ELSE << x >> \o sorted
RECURSIVE sort_by_key_rec(_, _)
sort_by_key_rec(s, acc) ==
    IF s = << >> THEN acc ELSE sort_by_key_rec(Tail(s), InsertByKey(acc, Head(s)))
sort_by_key_unsorted(s) == s
sort_by_key(s) == sort_by_key_rec(s, << >>)

\* create.rs:126-128  the manifest line of an entry
ManifestLine_no_newline(e) == ToDec(e.size) \o << TAB >> \o e.path
ManifestLine(e) == ToDec(e.size) \o << TAB >> \o e.path \o << NL >>

\* create.rs:281  MultipartUpload::upload_part
upload_part(path, upload_id, part_number, body) ==
    [bucket_key |-> data_key(S3_PREFIX, path), upload_id |-> upload_id,
     part_number |-> part_number, body |-> body, content_length |-> Len(body)]

\* create.rs:293  MultipartUpload::complete
complete(path, upload_id, completed) ==
    [key |-> data_key(S3_PREFIX, path), upload_id |-> upload_id, parts |-> completed]

FileIdle ==
    [pc |-> "none", upload_id |-> 0, pb |-> parts(1, 0), chunks |-> << >>,
     sending |-> {}, waiting |-> {}, completed_parts |-> << >>,
     upload_part_calls |-> {}, complete_req |-> None]

EntryOf(path) == CHOOSE e \in src_files : e.path = path
SrcPaths == { e.path : e \in src_files }

\* files whose per-file future try_buffer_unordered(file_concurrency) holds
InProgress == { path \in SrcPaths : up[path].pc \in {"create", "parts"} }

UploadIdle ==
    /\ cfg = [part_size |-> 1, part_queue_size |-> 1, part_concurrency |-> 1,
              file_concurrency |-> 1]
    /\ to_walk = {}
    /\ up = [path \in {} |-> FileIdle]
    /\ queue = << >>
    /\ workers = {}
    /\ manifest = << >>
    /\ done_order = << >>
    /\ main_pc = "idle"
    /\ pump_pc = "idle"
    /\ up_result = "idle"
    /\ err = None

UploadStart ==
    /\ to_walk = src_files
    /\ up = [path \in SrcPaths |-> FileIdle]
    /\ queue = << >>
    /\ workers = {}
    /\ manifest = << >>
    /\ done_order = << >>
    /\ main_pc = "files"
    /\ pump_pc = "run"
    /\ up_result = "pending"
    /\ err = None

StoreInit ==
    /\ s3_uploads = << >>
    /\ s3_objects = NoObjects
    /\ src_files \in FileSets

\* Any error: try_join returns it at once and drops both futures, the channel,
\* the queued tasks and the running workers with them (create.rs:83)
Fail_join(e) ==
    /\ main_pc' = "err"
    /\ err' = Some(e)
    /\ UNCHANGED << up_result, pump_pc, queue, workers >>
Fail(e) ==
    /\ up_result' = "err"
    /\ err' = Some(e)
    /\ main_pc' = "err"
    /\ pump_pc' = "dropped"
    /\ queue' = << >>
    /\ workers' = {}

\* part futures waiting in sender.send for a slot of the channel
Blocked(u) == UNION { { << path, n >> : n \in u[path].sending } : path \in DOMAIN u }

\* One poll of try_buffer_unordered(8) over the parts (create.rs:171-191): while
\* fewer than 8 part futures are held, the next part is taken from the iterator
\* and its future started; ChanExec::execute sends (task, tx) on the channel
\* when a slot is free (chan_exec.rs:62-71) and waits for one otherwise.
\* (The next round is applied to the updated record and queue as values g, h.)
RECURSIVE SubmitParts_uncapped(_, _, _, _)
SubmitParts_uncapped(path, f, q, blocked) ==
    LET r == next(f.pb) IN
    IF ~IsSome(r.item)
      THEN [file |-> f, queue |-> q]
      ELSE LET n == Len(f.chunks) + 1
               f1 == [f EXCEPT !.pb = r.pb, !.chunks = Append(@, Unwrap(r.item))]
               task == [path |-> path, part_number |-> n, chunk |-> Unwrap(r.item),
                        upload_id |-> f.upload_id]
           IN  IF Len(q) + blocked < cfg.part_queue_size
                 THEN CHOOSE x \in { SubmitParts_uncapped(path, g, h, blocked) :
                                        g \in {[f1 EXCEPT !.waiting = @ \cup {n}]},
                                        h \in {Append(q, task)} } : TRUE
                 ELSE CHOOSE x \in { SubmitParts_uncapped(path, g, q, blocked + 1) :
                                        g \in {[f1 EXCEPT !.sending = @ \cup {n}]} } : TRUE
RECURSIVE SubmitParts(_, _, _, _)
SubmitParts(path, f, q, blocked) ==
    LET r == next(f.pb) IN
    IF Cardinality(f.sending \cup f.waiting) >= INNER_BUFFER \/ ~IsSome(r.item)
      THEN [file |-> f, queue |-> q]
      ELSE LET n == Len(f.chunks) + 1
               f1 == [f EXCEPT !.pb = r.pb, !.chunks = Append(@, Unwrap(r.item))]
               task == [path |-> path, part_number |-> n, chunk |-> Unwrap(r.item),
                        upload_id |-> f.upload_id]
           IN  IF Len(q) + blocked < cfg.part_queue_size
                 THEN CHOOSE x \in { SubmitParts(path, g, h, blocked) :
                                        g \in {[f1 EXCEPT !.waiting = @ \cup {n}]},
                                        h \in {Append(q, task)} } : TRUE
                 ELSE CHOOSE x \in { SubmitParts(path, g, q, blocked + 1) :
                                        g \in {[f1 EXCEPT !.sending = @ \cup {n}]} } : TRUE

\* try_buffer_unordered(file_concurrency) takes the next entry of the walk and
\* starts its per-file future: source.open(), then the first call of
\* create_multipart_upload (create.rs:124, 160-166)
FileStart_unlimited(e) ==
    /\ up_result = "pending" /\ main_pc = "files"
    /\ e \in to_walk
    /\ to_walk' = to_walk \ {e}
    /\ up' = [up EXCEPT ![e.path] =
                 [FileIdle EXCEPT !.pc = "create", !.pb = parts(cfg.part_size, e.size)]]
    /\ UNCHANGED << cfg, queue, workers, manifest, done_order, main_pc, pump_pc,
                    up_result, s3Vars >>
    /\ UNCHANGED otherThanUpload
FileStart(e) ==
    /\ up_result = "pending" /\ main_pc = "files"
    /\ e \in to_walk
    /\ Cardinality(InProgress) < cfg.file_concurrency
    /\ to_walk' = to_walk \ {e}
    /\ up' = [up EXCEPT ![e.path] =
                 [FileIdle EXCEPT !.pc = "create", !.pb = parts(cfg.part_size, e.size)]]
    /\ UNCHANGED << cfg, queue, workers, manifest, done_order, main_pc, pump_pc,
                    up_result, s3Vars >>
    /\ UNCHANGED otherThanUpload

\* with_retry(create_multipart_upload) returns Ok (create.rs:162-168); the parts
\* are then submitted (create.rs:169-193)
FileCreateOk(path) ==
    /\ up_result = "pending"
    /\ path \in SrcPaths /\ up[path].pc = "create"
    /\ RetriedCallCanSucceed
    /\ s3_uploads' = S3CreateMultipartUpload(s3_uploads, data_key(S3_PREFIX, path))
    /\ LET f == [up[path] EXCEPT !.pc = "parts", !.upload_id = Len(s3_uploads')]
           r == SubmitParts(path, f, queue, Cardinality(Blocked(up)))
       IN  /\ up' = [up EXCEPT ![path] = r.file]
           /\ queue' = r.queue
    /\ UNCHANGED << cfg, to_walk, workers, manifest, done_order, main_pc,
                    pump_pc, up_result, s3_faults, s3_objects, src_files >>
    /\ UNCHANGED otherThanUpload

\* with_retry(create_multipart_upload) returns Err
FileCreateErr(path) ==
    /\ up_result = "pending"
    /\ path \in SrcPaths /\ up[path].pc = "create"
    /\ RetriedCallCanFail
    /\ \E e \in RetriedCallErrors("CreateMultipartUpload") : Fail(e)
    /\ UNCHANGED << cfg, to_walk, up, manifest, done_order, s3Vars >>
    /\ UNCHANGED notUpload

\* a part future waiting in sender.send gets a slot of the channel
\* (chan_exec.rs:68-71). The channel serves its waiting senders in the order
\* they asked, and the parts of a file ask in the order of their numbers.
PartSend(path, n) ==
    /\ up_result = "pending"
    /\ path \in SrcPaths /\ up[path].pc = "parts"
    /\ n \in up[path].sending
    /\ \A m \in up[path].sending : n <= m
    /\ Len(queue) < cfg.part_queue_size
    /\ queue' = Append(queue, [path |-> path, part_number |-> n,
                               chunk |-> up[path].chunks[n],
                               upload_id |-> up[path].upload_id])
    /\ up' = [up EXCEPT ![path].sending = @ \ {n}, ![path].waiting = @ \cup {n}]
    /\ UNCHANGED << cfg, to_walk, workers, manifest, done_order, main_pc, pump_pc,
                    up_result, s3Vars >>
    /\ UNCHANGED otherThanUpload

\* try_for_each_concurrent(part_concurrency) takes the next task of the channel
\* when fewer than part_concurrency workers are running (create.rs:78-82)
PumpHasRoom_unbounded(n, limit) == TRUE
PumpHasRoom(n, limit) == n < limit

\* The pump starts a worker on the next task of the channel: the worker calls
\* upload_part (chan_exec.rs:96-99, create.rs:180-183)
PumpDequeue ==
    /\ up_result = "pending" /\ pump_pc = "run"
    /\ queue # << >>
    /\ PumpHasRoom(Cardinality(workers), cfg.part_concurrency)
    /\ workers' = workers \cup {Head(queue)}
    /\ queue' = Tail(queue)
    /\ up' = [up EXCEPT ![Head(queue).path].upload_part_calls =
                            @ \cup {Head(queue).part_number}]
    /\ UNCHANGED << cfg, to_walk, manifest, done_order, main_pc, pump_pc,
                    up_result, s3Vars >>
    /\ UNCHANGED otherThanUpload

\* A worker's task, with_retry(upload_part), returns Ok: cb.send delivers the
\* output, the part's future yields its CompletedPart (create.rs:178-188,
\* chan_exec.rs:98) and try_buffer_unordered(8) takes further parts
WorkerOk(w) ==
    /\ up_result = "pending"
    /\ w \in workers
    /\ RetriedCallCanSucceed
    /\ LET req == upload_part(w.path, w.upload_id, w.part_number,
                              ChunkBytes(FileBytes(EntryOf(w.path)), w.chunk))
           stored == S3UploadPart(s3_uploads, req)
           f == [up[w.path] EXCEPT
                  !.waiting = @ \ {w.part_number},
                  !.completed_parts =
                      Append(@, [e_tag |-> stored[req.upload_id].parts[req.part_number].e_tag,
                                 part_number |-> w.part_number])]
           r == SubmitParts(w.path, f, queue, Cardinality(Blocked(up)))
       IN  /\ s3_uploads' = stored
           /\ up' = [up EXCEPT ![w.path] = r.file]
           /\ queue' = r.queue
    /\ workers' = workers \ {w}
    /\ UNCHANGED << cfg, to_walk, manifest, done_order, main_pc, pump_pc,
                    up_result, s3_faults, s3_objects, src_files >>
    /\ UNCHANGED otherThanUpload

\* A worker's task returns Err after its retries: the part's future fails
WorkerErr_swallowed(w) ==
    /\ up_result = "pending"
    /\ w \in workers
    /\ RetriedCallCanFail
    /\ \E e \in RetriedCallErrors("UploadPart") : err' = Some(e)
    /\ workers' = workers \ {w}
    /\ UNCHANGED << cfg, to_walk, up, manifest, done_order, s3Vars, queue, main_pc,
                    pump_pc, up_result >>
    /\ UNCHANGED notUpload
WorkerErr(w) ==
    /\ up_result = "pending"
    /\ w \in workers
    /\ RetriedCallCanFail
    /\ \E e \in RetriedCallErrors("UploadPart") : Fail(e)
    /\ UNCHANGED << cfg, to_walk, up, manifest, done_order, s3Vars >>
    /\ UNCHANGED notUpload

\* try_collect has every part: the iterator is exhausted and no part future is
\* left (create.rs:192-193)
PartsCollected_early(path) == path \in SrcPaths /\ up[path].pc = "parts"
PartsCollected(path) ==
    /\ path \in SrcPaths /\ up[path].pc = "parts"
    /\ ~IsSome(next(up[path].pb).item)
    /\ up[path].sending = {} /\ up[path].waiting = {}

\* The request of complete_multipart_upload (create.rs:195-200)
CompleteRequest(path) ==
    complete(path, up[path].upload_id, sort_by_key(up[path].completed_parts))

\* with_retry(complete_multipart_upload) returns Ok; the file's future yields
\* its entry and try_fold appends its line (create.rs:197-203, 125-130)
FileCompleteOk(path) ==
    /\ up_result = "pending"
    /\ PartsCollected(path)
    /\ RetriedCallCanSucceed
    /\ LET req == CompleteRequest(path)
       IN  /\ S3CompleteValid(s3_uploads, req)
           /\ s3_objects' = S3Put(s3_objects, req.key, S3CompletedObject(s3_uploads, req))
           /\ up' = [up EXCEPT ![path].pc = "done", ![path].complete_req = Some(req)]
    /\ manifest' = manifest \o ManifestLine(EntryOf(path))
    /\ done_order' = Append(done_order, EntryOf(path))
    /\ UNCHANGED << cfg, to_walk, queue, workers, main_pc, pump_pc, up_result,
                    s3_faults, s3_uploads, src_files >>
    /\ UNCHANGED otherThanUpload

\* with_retry(complete_multipart_upload) returns Err: the store is failing, or
\* it rejects the request every time
FileCompleteErr(path) ==
    /\ up_result = "pending"
    /\ PartsCollected(path)
    /\ LET req == CompleteRequest(path)
       IN  /\ RetriedCallCanFail \/ ~S3CompleteValid(s3_uploads, req)
           /\ up' = [up EXCEPT ![path].complete_req = Some(req)]
    /\ \E e \in RetriedCallErrors("CompleteMultipartUpload") : Fail(e)
    /\ UNCHANGED << cfg, to_walk, manifest, done_order, s3Vars >>
    /\ UNCHANGED notUpload

\* every per-file future has yielded: try_fold returns the manifest
AllFilesDone_early == main_pc = "files" /\ to_walk = {}
AllFilesDone ==
    /\ main_pc = "files"
    /\ to_walk = {}
    /\ \A path \in SrcPaths : up[path].pc = "done"

\* put_object(manifest) returns Ok and main_fut ends, dropping the last
\* ChanExec (create.rs:133-143)
PutManifestOk ==
    /\ up_result = "pending"
    /\ AllFilesDone
    /\ s3_objects' = S3Put(s3_objects, manifest_key(S3_PREFIX), [parts |-> << manifest >>])
    /\ main_pc' = "ok"
    /\ UNCHANGED << cfg, to_walk, up, queue, workers, manifest, done_order, pump_pc,
                    up_result, s3_faults, s3_uploads, src_files >>
    /\ UNCHANGED otherThanUpload

\* put_object(manifest) returns Err: it is not wrapped in with_retry
PutManifestErr ==
    /\ up_result = "pending"
    /\ AllFilesDone
    /\ s3_faults
    /\ Fail(BareCallError("PutObject"))
    /\ UNCHANGED << cfg, to_walk, up, manifest, done_order, s3Vars >>
    /\ UNCHANGED notUpload

\* every sender is gone and the channel is empty: the stream of tasks ends,
\* try_for_each_concurrent returns Ok and so does try_join (create.rs:78-86)
PumpEnd_sender_held ==
    /\ up_result = "pending" /\ pump_pc = "run"
    /\ FALSE
    /\ UNCHANGED vars
PumpEnd ==
    /\ up_result = "pending" /\ pump_pc = "run"
    /\ main_pc = "ok"
    /\ queue = << >> /\ workers = {}
    /\ pump_pc' = "ok"
    /\ up_result' = "ok"
    /\ UNCHANGED << cfg, to_walk, up, queue, workers, manifest, done_order, main_pc,
                    s3Vars >>
    /\ UNCHANGED otherThanUpload

(***************************************************************************)
(* The download pipeline (extract.rs)                                      *)
(***************************************************************************)
DnConfigs == [file_concurrency : 1..MaxFileConc, part_concurrency : 1..MaxPartConc]

EmptyDir == [path \in {} |-> << >>]

\* extract.rs:69-72  a manifest line to a FileEntry; None for the two errors
ParseLine(line) ==
    LET cols == Split(line, TAB)
        sz == ParseUsize(cols[1])
    IN  IF sz < 0 THEN None
        ELSE IF Len(cols) < 2 THEN None
        ELSE Some(FileEntry_new(cols[2], sz))

RECURSIVE SumLen(_)
SumLen(ss) == IF ss = << >> THEN 0 ELSE Len(Head(ss)) + SumLen(Tail(ss))

\* GetObject without a part number: the whole body
S3GetObject(objects, key) == Concat(objects[key].parts)

\* GetObject with part_number answers for an existing part of an existing object
S3HasPart(objects, key, part_number) ==
    /\ key \in DOMAIN objects
    /\ part_number \in 1..Len(objects[key].parts)

\* GetObjectOutput of get_part (extract.rs:158-172)
get_part(objects, key, part_number) ==
    [parts_count |-> Len(objects[key].parts),
     content_length |-> Len(objects[key].parts[part_number]),
     body |-> objects[key].parts[part_number]]

\* file_entry.rs:38-41  the file is pre-sized: size zero bytes
Zeros(n) == [i \in 1..n |-> 0]

\* futures::io::copy into the Cursor over the chunk (extract.rs:148-151)
WriteAt(bytes, chunk, body) ==
    [i \in 1..Len(bytes) |->
        IF i > chunk.offset /\ i <= chunk.offset + Len(body)
          THEN body[i - chunk.offset] ELSE bytes[i]]

DownloadIdle ==
    /\ dn_cfg = [file_concurrency |-> 1, part_concurrency |-> 1]
    /\ dst = EmptyDir
    /\ dn_lines = << >>
    /\ dn_pulled = 0
    /\ dn_buf = {}
    /\ dn_cur = None
    /\ dn_copies = {}
    /\ dn_gets = << >>
    /\ dn_result = "idle"

notDownload == << rtVars, ckVars, s3Vars, upVars, ceVars >>
otherThanDownload == << notDownload, err >>

\* whether try_for_each_concurrent polls the stream: fewer than part_concurrency
\* copy futures are running (extract.rs:90)
StreamPolled_always == TRUE
StreamPolled == Cardinality(dn_copies) < dn_cfg.part_concurrency

\* Any error ends execute at once; the stream and the running copy futures are
\* dropped, what was written stays on disk
DlFail(e) ==
    /\ dn_result' = "err"
    /\ err' = Some(e)
    /\ dn_buf' = {}
    /\ dn_cur' = None
    /\ dn_copies' = {}
    /\ UNCHANGED << dn_cfg, dst, dn_lines, dn_pulled, dn_gets >>

\* the download is run after the upload has returned Ok
DlStart ==
    /\ up_result = "ok" /\ dn_result = "idle"
    /\ dn_result' = "manifest"
    /\ UNCHANGED << dn_cfg, dst, dn_lines, dn_pulled, dn_buf, dn_cur, dn_copies, dn_gets >>
    /\ UNCHANGED otherThanDownload

\* extract.rs:46-66  GetObject of the manifest, not wrapped in with_retry
DlGetManifestOk ==
    /\ dn_result = "manifest"
    /\ manifest_key(S3_PREFIX) \in DOMAIN s3_objects
    /\ dn_lines' = Lines(S3GetObject(s3_objects, manifest_key(S3_PREFIX)))
    /\ dn_result' = "run"
    /\ UNCHANGED << dn_cfg, dst, dn_pulled, dn_buf, dn_cur, dn_copies, dn_gets >>
    /\ UNCHANGED otherThanDownload

DlGetManifestErr ==
    /\ dn_result = "manifest"
    /\ s3_faults \/ manifest_key(S3_PREFIX) \notin DOMAIN s3_objects
    /\ DlFail(BareCallError("GetObject"))
    /\ UNCHANGED notDownload

\* the lines try_buffer_unordered(file_concurrency) pulls in one poll
PullRange ==
    (dn_pulled + 1)..
        (dn_pulled + Min(dn_cfg.file_concurrency - Cardinality(dn_buf),
                         Len(dn_lines) - dn_pulled))

\* extract.rs:67-88  lines are parsed and their per-file futures buffered
DlPull ==
    /\ dn_result = "run" /\ dn_cur = None /\ StreamPolled
    /\ PullRange # {}
    /\ \A i \in PullRange : IsSome(ParseLine(dn_lines[i]))
    /\ dn_buf' = dn_buf \cup
          { [idx |-> i, entry |-> Unwrap(ParseLine(dn_lines[i])), st |-> "new"] :
              i \in PullRange }
    /\ dn_pulled' = dn_pulled + Cardinality(PullRange)
    /\ UNCHANGED << dn_cfg, dst, dn_lines, dn_cur, dn_copies, dn_result, dn_gets >>
    /\ UNCHANGED otherThanDownload

\* extract.rs:70-71  a line that does not parse is an error of the stream
DlPullErr ==
    /\ dn_result = "run" /\ dn_cur = None /\ StreamPolled
    /\ PullRange # {}
    /\ \E i \in PullRange : ~IsSome(ParseLine(dn_lines[i]))
    /\ DlFail([kind |-> "String", call |-> "parse", invocations |-> 1])
    /\ UNCHANGED notDownload

\* extract.rs:118, file_entry.rs:28-44  the destination file is created, zero-filled
DlCreateOk_overwrite(b) ==
    /\ dn_result = "run" /\ b.st = "new"
    /\ dst' = [path \in DOMAIN dst \cup {b.entry.path} |->
                  IF path = b.entry.path THEN Zeros(b.entry.size) ELSE dst[path]]
    /\ dn_buf' = (dn_buf \ {b}) \cup {[b EXCEPT !.st = "ready"]}
    /\ UNCHANGED << dn_cfg, dn_lines, dn_pulled, dn_cur, dn_copies, dn_result, dn_gets >>
    /\ UNCHANGED otherThanDownload
DlCreateOk(b) ==
    /\ dn_result = "run" /\ b.st = "new"
    /\ b.entry.path \notin DOMAIN dst
    /\ dst' = [path \in DOMAIN dst \cup {b.entry.path} |->
                  IF path = b.entry.path THEN Zeros(b.entry.size) ELSE dst[path]]
    /\ dn_buf' = (dn_buf \ {b}) \cup {[b EXCEPT !.st = "ready"]}
    /\ UNCHANGED << dn_cfg, dn_lines, dn_pulled, dn_cur, dn_copies, dn_result, dn_gets >>
    /\ UNCHANGED otherThanDownload

\* file_entry.rs:32-37  create_new fails on an existing path; with_retry
\* (extract.rs:84) sleeps and calls execute again
DlCreateErr(b) ==
    /\ dn_result = "run" /\ b.st = "new"
    /\ b.entry.path \in DOMAIN dst
    /\ dn_buf' = (dn_buf \ {b}) \cup {[b EXCEPT !.st = "retry"]}
    /\ UNCHANGED << dn_cfg, dst, dn_lines, dn_pulled, dn_cur, dn_copies, dn_result, dn_gets >>
    /\ UNCHANGED otherThanDownload

\* extract.rs:84-88  with_retry gives up on the file creation
DlCreateGiveUp(b) ==
    /\ dn_result = "run" /\ b.st = "retry"
    /\ dn_cur = None /\ StreamPolled
    /\ ~SystemRetry[ALWAYS].ok
    /\ DlFail([kind |-> "Io", call |-> "create", invocations |-> SystemRetry[ALWAYS].calls])
    /\ UNCHANGED notDownload

\* extract.rs:119-121, 89  try_flatten takes the part stream of a created file
DlYield(b) ==
    /\ dn_result = "run" /\ b.st = "ready"
    /\ dn_cur = None /\ StreamPolled
    /\ dn_cur' = Some([path |-> b.entry.path,
                       key |-> data_key(S3_PREFIX, b.entry.path),
                       chunker |-> Chunker_new(b.entry.size),
                       state |-> None, pending |-> FALSE])
    /\ dn_buf' = dn_buf \ {b}
    /\ UNCHANGED << dn_cfg, dst, dn_lines, dn_pulled, dn_copies, dn_result, dn_gets >>
    /\ UNCHANGED otherThanDownload

\* extract.rs:126-137  the part the unfold step asks for
NextPartNumber(cur) == IF IsSome(cur.state) THEN Unwrap(cur.state).part_number ELSE 1

\* extract.rs:128-130  the part stream ends
DlStreamEnd ==
    /\ dn_result = "run" /\ IsSome(dn_cur) /\ StreamPolled
    /\ LET cur == Unwrap(dn_cur) IN
          /\ IsSome(cur.state)
          /\ Unwrap(cur.state).part_number > Unwrap(cur.state).parts_count
    /\ dn_cur' = None
    /\ UNCHANGED << dn_cfg, dst, dn_lines, dn_pulled, dn_buf, dn_copies, dn_result, dn_gets >>
    /\ UNCHANGED otherThanDownload

PartWanted_beyond(cur) == TRUE
PartWanted(cur) ==
    IsSome(cur.state) => Unwrap(cur.state).part_number <= Unwrap(cur.state).parts_count

\* extract.rs:131, 134, 158-170  the unfold step of a polled part stream issues
\* GetObject for the next part
DlGetPartIssue ==
    /\ dn_result = "run" /\ IsSome(dn_cur) /\ StreamPolled
    /\ LET cur == Unwrap(dn_cur) IN
          /\ ~cur.pending
          /\ PartWanted(cur)
          /\ dn_cur' = Some([cur EXCEPT !.pending = TRUE])
          /\ dn_gets' = Append(dn_gets, [key |-> cur.key, part_number |-> NextPartNumber(cur)])
    /\ UNCHANGED << dn_cfg, dst, dn_lines, dn_pulled, dn_buf, dn_copies, dn_result >>
    /\ UNCHANGED otherThanDownload

\* extract.rs:131-153  the part is answered, its chunk taken and its copy future
\* handed to try_for_each_concurrent
DlGetPartOk ==
    /\ dn_result = "run" /\ IsSome(dn_cur) /\ StreamPolled
    /\ LET cur == Unwrap(dn_cur)
           n == NextPartNumber(cur)
       IN  /\ cur.pending
           /\ S3HasPart(s3_objects, cur.key, n)
           /\ LET part == get_part(s3_objects, cur.key, n)
                  parts_count == IF IsSome(cur.state) THEN Unwrap(cur.state).parts_count
                                                      ELSE part.parts_count
              IN  /\ take_chunk_assert(cur.chunker, part.content_length)
                  /\ LET t == take_chunk(cur.chunker, part.content_length) IN
                        /\ dn_copies' = dn_copies \cup
                              {[path |-> cur.path, part_number |-> n,
                                chunk |-> t.chunk, body |-> part.body]}
                        /\ dn_cur' = Some([cur EXCEPT
                                             !.pending = FALSE,
                                             !.chunker = t.chunker,
                                             !.state = Some([part_number |-> n + 1,
                                                             parts_count |-> parts_count])])
    /\ UNCHANGED << dn_cfg, dst, dn_lines, dn_pulled, dn_buf, dn_gets, dn_result >>
    /\ UNCHANGED otherThanDownload

\* extract.rs:131,134,170  get_part is not wrapped in with_retry
DlGetPartErr ==
    /\ dn_result = "run" /\ IsSome(dn_cur) /\ StreamPolled
    /\ LET cur == Unwrap(dn_cur) IN
          /\ cur.pending
          /\ s3_faults \/ ~S3HasPart(s3_objects, cur.key, NextPartNumber(cur))
    /\ DlFail(BareCallError("GetObject"))
    /\ UNCHANGED notDownload

\* extract.rs:139, mmap.rs:68  the part is longer than what is left of the file
DlGetPartPanic ==
    /\ dn_result = "run" /\ IsSome(dn_cur) /\ StreamPolled
    /\ LET cur == Unwrap(dn_cur)
           n == NextPartNumber(cur)
       IN  /\ cur.pending
           /\ S3HasPart(s3_objects, cur.key, n)
           /\ ~take_chunk_assert(cur.chunker, get_part(s3_objects, cur.key, n).content_length)
    /\ dn_result' = "panic"
    /\ dn_buf' = {}
    /\ dn_cur' = None
    /\ dn_copies' = {}
    /\ UNCHANGED << dn_cfg, dst, dn_lines, dn_pulled, dn_gets >>
    /\ UNCHANGED otherThanDownload

\* extract.rs:147-153  the body of a part is copied into its chunk
DlCopy(c) ==
    /\ dn_result = "run" /\ c \in dn_copies
    /\ dst' = [dst EXCEPT ![c.path] = WriteAt(@, c.chunk, c.body)]
    /\ dn_copies' = dn_copies \ {c}
    /\ UNCHANGED << dn_cfg, dn_lines, dn_pulled, dn_buf, dn_cur, dn_result, dn_gets >>
    /\ UNCHANGED otherThanDownload

\* extract.rs:90-95  the stream has ended and no copy future is left
DlEnd ==
    /\ dn_result = "run"
    /\ dn_pulled = Len(dn_lines) /\ dn_buf = {} /\ dn_cur = None /\ dn_copies = {}
    /\ dn_result' = "ok"
    /\ UNCHANGED << dn_cfg, dst, dn_lines, dn_pulled, dn_buf, dn_cur, dn_copies, dn_gets >>
    /\ UNCHANGED otherThanDownload

(***************************************************************************)
(* chan_exec.rs: the bounded executor, with any submitters. Each ChanExec  *)
(* clone s calls execute once, with its task TaskOf(s); the stream of      *)
(* worker futures is driven as create.rs:78-82 drives it.                  *)
(***************************************************************************)
Clones == 1..MaxClones
ExecConfigs == [queue_size : 1..MaxExecQueue, limit : 1..MaxExecLimit]

TaskOf(s) == 100 + s
\* the output of task.await
Output(task) == << "out", task >>

\* chan_exec.rs:16-17, 37-46  Error::Send(SendError(task)), Error::Recv(Canceled)
SendErr(task) == [kind |-> "Send", task |-> task]
RecvErr == [kind |-> "Recv"]
OkRet(v) == [kind |-> "Ok", value |-> v]

ChanExecIdle ==
    /\ ce_cfg = [queue_size |-> 1, limit |-> 1]
    /\ ce_sub = << >>
    /\ ce_queue = << >>
    /\ ce_workers = {}
    /\ ce_enqueued = << >>
    /\ ce_started = << >>
    /\ ce_done = {}
    /\ ce_pump = "idle"

\* chan_exec.rs:92-102  create(queue_size), and the clones of the ChanExec
ChanExecInit ==
    /\ ce_cfg \in ExecConfigs
    /\ ce_sub = [s \in Clones |-> [pc |-> "idle", ret |-> None, pump_at_call |-> "none"]]
    /\ ce_queue = << >>
    /\ ce_workers = {}
    /\ ce_enqueued = << >>
    /\ ce_started = << >>
    /\ ce_done = {}
    /\ ce_pump = "run"

otherThanChanExec == << rtVars, ckVars, s3Vars, upVars, dnVars, err >>

\* the receiver of the channel lives as long as the driver of the pump runs
RxAlive_always == TRUE
RxAlive == ce_pump = "run"

\* the senders waiting in sender.send for a slot
CeBlocked == { s \in Clones : ce_sub[s].pc = "sending" }

\* chan_exec.rs:66-67  the pair (task, tx) of a call
paired_req(s) == [task |-> TaskOf(s), cb |-> s]

\* chan_exec.rs:62-71  execute: send on a channel whose receiver is gone fails
\* with the task handed back; otherwise the pair is sent when a slot is free
CeExecute(s) ==
    /\ ce_sub[s].pc = "idle"
    /\ IF ~RxAlive
         THEN /\ ce_sub' = [ce_sub EXCEPT ![s] = [pc |-> "ret", ret |-> Some(SendErr(TaskOf(s))),
                                                  pump_at_call |-> ce_pump]]
              /\ UNCHANGED << ce_queue, ce_enqueued >>
         ELSE IF Len(ce_queue) + Cardinality(CeBlocked) < ce_cfg.queue_size
           THEN /\ ce_queue' = Append(ce_queue, paired_req(s))
                /\ ce_enqueued' = Append(ce_enqueued, TaskOf(s))
                /\ ce_sub' = [ce_sub EXCEPT ![s].pc = "waiting", ![s].pump_at_call = ce_pump]
           ELSE /\ ce_sub' = [ce_sub EXCEPT ![s].pc = "sending", ![s].pump_at_call = ce_pump]
                /\ UNCHANGED << ce_queue, ce_enqueued >>
    /\ UNCHANGED << ce_cfg, ce_workers, ce_started, ce_done, ce_pump >>
    /\ UNCHANGED otherThanChanExec

\* chan_exec.rs:68-70  a waiting send gets a slot
CeSendReady(s) ==
    /\ ce_sub[s].pc = "sending"
    /\ RxAlive
    /\ Len(ce_queue) < ce_cfg.queue_size
    /\ ce_queue' = Append(ce_queue, paired_req(s))
    /\ ce_enqueued' = Append(ce_enqueued, TaskOf(s))
    /\ ce_sub' = [ce_sub EXCEPT ![s].pc = "waiting"]
    /\ UNCHANGED << ce_cfg, ce_workers, ce_started, ce_done, ce_pump >>
    /\ UNCHANGED otherThanChanExec

\* chan_exec.rs:68-71  a waiting send finds the receiver gone: Error::Send
CeSendClosed(s) ==
    /\ ce_sub[s].pc = "sending"
    /\ ~RxAlive
    /\ ce_sub' = [ce_sub EXCEPT ![s].pc = "ret", ![s].ret = Some(SendErr(TaskOf(s)))]
    /\ UNCHANGED << ce_cfg, ce_queue, ce_workers, ce_enqueued, ce_started, ce_done, ce_pump >>
    /\ UNCHANGED otherThanChanExec

\* chan_exec.rs:96-98  the receiver yields the pairs in the order they were sent
recv_newest(q) == [item |-> q[Len(q)], rest |-> SubSeq(q, 1, Len(q) - 1)]
recv(q) == [item |-> Head(q), rest |-> Tail(q)]

\* chan_exec.rs:98, create.rs:78-80  the driver takes the next pair of the
\* stream when it runs fewer than limit worker futures
CeDequeue ==
    /\ RxAlive
    /\ ce_queue # << >>
    /\ Cardinality(ce_workers) < ce_cfg.limit
    /\ LET r == recv(ce_queue) IN
          /\ ce_workers' = ce_workers \cup {r.item}
          /\ ce_queue' = r.rest
          /\ ce_started' = Append(ce_started, r.item.task)
    /\ UNCHANGED << ce_cfg, ce_sub, ce_enqueued, ce_done, ce_pump >>
    /\ UNCHANGED otherThanChanExec

\* chan_exec.rs:99  cb.send(value): Err(value) when the receiver of the reply
\* is gone, and that is the output of the worker future
cb_send_ignored(receiver_alive) == "Ok"
cb_send(receiver_alive) == IF receiver_alive THEN "Ok" ELSE "Err"

\* chan_exec.rs:98-100, create.rs:80-82  a worker's task produces its output and
\* the worker sends it to the reply slot; the driver ends with the first Err of
\* a worker future (map_err), dropping the stream and the other workers
CeWorkerDone(w) ==
    /\ ce_pump = "run"
    /\ w \in ce_workers
    /\ LET receiver_alive == ce_sub[w.cb].pc = "waiting"
           sent == cb_send(receiver_alive)
       IN  /\ ce_done' = ce_done \cup
                  {[task |-> w.task, cb |-> w.cb, delivered |-> receiver_alive]}
           /\ ce_sub' = IF receiver_alive
                          THEN [ce_sub EXCEPT ![w.cb].pc = "ret",
                                              ![w.cb].ret = Some(OkRet(Output(w.task)))]
                          ELSE ce_sub
           /\ IF sent = "Ok"
                THEN /\ ce_workers' = ce_workers \ {w}
                     /\ UNCHANGED << ce_queue, ce_pump >>
                ELSE /\ ce_pump' = "err"
                     /\ ce_workers' = {}
                     /\ ce_queue' = << >>
    /\ UNCHANGED << ce_cfg, ce_enqueued, ce_started >>
    /\ UNCHANGED otherThanChanExec

\* the reply slot of a call is gone: its pair is neither in the channel nor
\* held by a worker
CbDropped(s) ==
    /\ \A i \in 1..Len(ce_queue) : ce_queue[i].cb # s
    /\ \A w \in ce_workers : w.cb # s

\* chan_exec.rs:72  rx.await? on a dropped sender: Error::Recv(Canceled)
CeRecvCanceled(s) ==
    /\ ce_sub[s].pc = "waiting"
    /\ CbDropped(s)
    /\ ce_sub' = [ce_sub EXCEPT ![s].pc = "ret", ![s].ret = Some(RecvErr)]
    /\ UNCHANGED << ce_cfg, ce_queue, ce_workers, ce_enqueued, ce_started, ce_done, ce_pump >>
    /\ UNCHANGED otherThanChanExec

\* the caller drops the future of execute
CeAbandon(s) ==
    /\ ce_sub[s].pc \in {"sending", "waiting"}
    /\ ce_sub' = [ce_sub EXCEPT ![s].pc = "gone"]
    /\ UNCHANGED << ce_cfg, ce_queue, ce_workers, ce_enqueued, ce_started, ce_done, ce_pump >>
    /\ UNCHANGED otherThanChanExec

\* the driver of the pump is dropped, and with it the receiver, the pairs in
\* the channel and the worker futures
CePumpDrop ==
    /\ ce_pump = "run"
    /\ ce_pump' = "dropped"
    /\ ce_queue' = << >>
    /\ ce_workers' = {}
    /\ UNCHANGED << ce_cfg, ce_sub, ce_enqueued, ce_started, ce_done >>
    /\ UNCHANGED otherThanChanExec

\* every ChanExec is dropped and the channel is empty: the stream ends and the
\* driver returns Ok when its workers are done
CePumpEnd ==
    /\ ce_pump = "run"
    /\ \A s \in Clones : ce_sub[s].pc \in {"ret", "gone"}
    /\ ce_queue = << >> /\ ce_workers = {}
    /\ ce_pump' = "ok"
    /\ UNCHANGED << ce_cfg, ce_sub, ce_queue, ce_workers, ce_enqueued, ce_started, ce_done >>
    /\ UNCHANGED otherThanChanExec

(***************************************************************************)
(* Specifications                                                          *)
(***************************************************************************)
StoreIdle ==
    /\ s3_faults = FALSE
    /\ s3_uploads = << >>
    /\ s3_objects = NoObjects
    /\ src_files = {}

\* The retry envelope, alone
RetrySpecInit ==
    RetryInit /\ ChunkerIdle /\ StoreIdle /\ UploadIdle /\ DownloadIdle /\ ChanExecIdle

RetryNext ==
    \/ RetryCallOk
    \/ RetryCallErr
    \/ RetrySleep
    \/ RetryPanic

SpecRetry == RetrySpecInit /\ [][RetryNext]_vars

\* The chunker and the upload parts iterator, alone
ChunkerSpecInit ==
    RetryIdle /\ ChunkerInit /\ StoreIdle /\ UploadIdle /\ DownloadIdle /\ ChanExecIdle

ChunkerNext ==
    \/ PartsNextSome
    \/ PartsNextNone
    \/ TakeChunk
    \/ TakeChunkPanic

SpecChunker == ChunkerSpecInit /\ [][ChunkerNext]_vars

\* The parts iterator with every part_size the command line accepts
\* (main.rs:175-179 parses any usize, 0 included)
PartSizeAnyInit ==
    /\ RetryIdle
    /\ StoreIdle
    /\ UploadIdle
    /\ DownloadIdle
    /\ ChanExecIdle
    /\ ck_len \in 0..MaxLen
    /\ ck_mode \in {"parts", "free"}
    /\ \E ps \in 0..MaxPartSize :
          /\ ck_mode = "free" => ps = 1
          /\ ck_pb = parts(ps, ck_len)
    /\ ck_issued = << >>
    /\ ck_done = FALSE
    /\ ck_panicked = FALSE

SpecPartSizeAny == PartSizeAnyInit /\ [][ChunkerNext]_vars

\* The upload pipeline against a store whose calls may fail
Init ==
    /\ RetryIdle
    /\ ChunkerIdle
    /\ ChanExecIdle
    /\ s3_faults = TRUE
    /\ StoreInit
    /\ cfg \in Configs
    /\ UploadStart
    /\ DownloadIdle

Next ==
    \/ \E e \in src_files : FileStart(e)
    \/ \E path \in SrcPaths : FileCreateOk(path)
    \/ \E path \in SrcPaths : FileCreateErr(path)
    \/ \E path \in SrcPaths : \E n \in up[path].sending : PartSend(path, n)
    \/ PumpDequeue
    \/ \E w \in workers : WorkerOk(w)
    \/ \E w \in workers : WorkerErr(w)
    \/ \E path \in SrcPaths : FileCompleteOk(path)
    \/ \E path \in SrcPaths : FileCompleteErr(path)
    \/ PutManifestOk
    \/ PutManifestErr
    \/ PumpEnd

Spec == Init /\ [][Next]_vars

\* The upload pipeline followed by the download pipeline into an empty
\* directory, against a store that never fails
RoundTripInit ==
    /\ RetryIdle
    /\ ChunkerIdle
    /\ ChanExecIdle
    /\ s3_faults = FALSE
    /\ StoreInit
    /\ cfg \in { c \in Configs : c.part_queue_size = MaxQueue }
    /\ UploadStart
    /\ dn_cfg \in DnConfigs
    /\ dst = EmptyDir
    /\ dn_lines = << >>
    /\ dn_pulled = 0
    /\ dn_buf = {}
    /\ dn_cur = None
    /\ dn_copies = {}
    /\ dn_gets = << >>
    /\ dn_result = "idle"

RoundTripNext ==
    \/ \E e \in src_files : FileStart(e)
    \/ \E path \in SrcPaths : FileCreateOk(path)
    \/ \E path \in SrcPaths : \E n \in up[path].sending : PartSend(path, n)
    \/ PumpDequeue
    \/ \E w \in workers : WorkerOk(w)
    \/ \E path \in SrcPaths : FileCompleteOk(path)
    \/ PutManifestOk
    \/ PumpEnd
    \/ DlStart
    \/ DlGetManifestOk
    \/ DlPull
    \/ \E b \in dn_buf : DlCreateOk(b)
    \/ \E b \in dn_buf : DlCreateErr(b)
    \/ \E b \in dn_buf : DlCreateGiveUp(b)
    \/ \E b \in dn_buf : DlYield(b)
    \/ DlGetPartIssue
    \/ DlGetPartOk
    \/ DlGetPartErr
    \/ DlGetPartPanic
    \/ DlStreamEnd
    \/ \E c \in dn_copies : DlCopy(c)
    \/ DlEnd

SpecRoundTrip == RoundTripInit /\ [][RoundTripNext]_vars

\* The upload pipeline on two files of more parts than one per-file buffer of
\* part futures holds, against a store that never fails
BpFiles == { FileEntry_new(PathSeq[1], BpSizeA), FileEntry_new(PathSeq[3], BpSizeB) }

BackpressureInit ==
    /\ RetryIdle
    /\ ChunkerIdle
    /\ ChanExecIdle
    /\ s3_faults = FALSE
    /\ s3_uploads = << >>
    /\ s3_objects = NoObjects
    /\ src_files = BpFiles
    /\ cfg \in { c \in Configs : c.part_size = 1 }
    /\ UploadStart
    /\ DownloadIdle

BackpressureNext ==
    \/ \E e \in src_files : FileStart(e)
    \/ \E path \in SrcPaths : FileCreateOk(path)
    \/ \E path \in SrcPaths : \E n \in up[path].sending : PartSend(path, n)
    \/ PumpDequeue
    \/ \E w \in workers : WorkerOk(w)
    \/ \E path \in SrcPaths : FileCompleteOk(path)
    \/ PutManifestOk
    \/ PumpEnd

SpecBackpressure == BackpressureInit /\ [][BackpressureNext]_vars

\* The upload pipeline against a store whose calls succeed, every future that
\* can make a step being polled eventually
UploadOkInit ==
    /\ RetryIdle
    /\ ChunkerIdle
    /\ ChanExecIdle
    /\ s3_faults = FALSE
    /\ StoreInit
    /\ cfg \in Configs
    /\ UploadStart
    /\ DownloadIdle

UploadOkNext ==
    \/ \E e \in src_files : FileStart(e)
    \/ \E path \in SrcPaths : FileCreateOk(path)
    \/ \E path \in SrcPaths : \E n \in up[path].sending : PartSend(path, n)
    \/ PumpDequeue
    \/ \E w \in workers : WorkerOk(w)
    \/ \E path \in SrcPaths : FileCompleteOk(path)
    \/ PutManifestOk
    \/ PumpEnd

SpecUploadOk == UploadOkInit /\ [][UploadOkNext]_vars /\ WF_vars(UploadOkNext)

\* The executor alone: a call of execute that can return does so eventually
ChanExecSpecInit ==
    /\ RetryIdle
    /\ ChunkerIdle
    /\ StoreIdle
    /\ UploadIdle
    /\ DownloadIdle
    /\ ChanExecInit

ChanExecNext ==
    \/ \E s \in Clones : CeExecute(s)
    \/ \E s \in Clones : CeSendReady(s)
    \/ \E s \in Clones : CeSendClosed(s)
    \/ CeDequeue
    \/ \E w \in ce_workers : CeWorkerDone(w)
    \/ \E s \in Clones : CeRecvCanceled(s)
    \/ \E s \in Clones : CeAbandon(s)
    \/ CePumpDrop
    \/ CePumpEnd

SpecChanExec ==
    /\ ChanExecSpecInit
    /\ [][ChanExecNext]_vars
    /\ \A s \in Clones : WF_vars(CeSendClosed(s) \/ CeRecvCanceled(s))

\* The download pipeline against a store that holds a manifest and objects
\* some other writer may have put there, with calls that may fail
DlPathA == PathSeq[1]
DlPathB == PathSeq[3]
DlEntries ==
    { FileEntry_new(DlPathA, sz) : sz \in 0..MaxDlSize } \cup { FileEntry_new(DlPathB, 1) }
DlManifests ==
    { ManifestLine(e) : e \in DlEntries }
      \cup { ManifestLine(e1) \o ManifestLine(e2) : e1, e2 \in DlEntries }
      \cup { ToDec(1) \o << NL >> }
\* the part lengths of a stored object
DlLayouts ==
    { << 0 >> } \cup
    UNION { [1..n -> 1..MaxStorePartLen] : n \in 1..MaxStoreParts }
RECURSIVE LayoutOffset(_, _)
LayoutOffset(layout, i) == IF i = 1 THEN 0 ELSE LayoutOffset(layout, i - 1) + layout[i - 1]
LayoutObject(path, layout) ==
    [parts |-> [i \in 1..Len(layout) |->
                  [j \in 1..layout[i] |-> Content(path, LayoutOffset(layout, i) + j - 1)]]]
DlStores ==
    { [k \in {manifest_key(S3_PREFIX), data_key(S3_PREFIX, DlPathA),
              data_key(S3_PREFIX, DlPathB)} |->
          IF k = manifest_key(S3_PREFIX) THEN [parts |-> << m >>]
          ELSE IF k = data_key(S3_PREFIX, DlPathA) THEN LayoutObject(DlPathA, la)
          ELSE LayoutObject(DlPathB, << 1 >>)] :
        m \in DlManifests, la \in DlLayouts }

DownloadInit ==
    /\ RetryIdle
    /\ ChunkerIdle
    /\ ChanExecIdle
    /\ UploadIdle
    /\ s3_faults = TRUE
    /\ s3_uploads = << >>
    /\ src_files = {}
    /\ s3_objects \in DlStores
    /\ dn_cfg \in DnConfigs
    /\ dst \in { EmptyDir, [path \in {DlPathB} |-> << 9 >>] }
    /\ dn_lines = << >>
    /\ dn_pulled = 0
    /\ dn_buf = {}
    /\ dn_cur = None
    /\ dn_copies = {}
    /\ dn_gets = << >>
    /\ dn_result = "manifest"

DownloadNext ==
    \/ DlGetManifestOk
    \/ DlGetManifestErr
    \/ DlPull
    \/ DlPullErr
    \/ \E b \in dn_buf : DlCreateOk(b)
    \/ \E b \in dn_buf : DlCreateErr(b)
    \/ \E b \in dn_buf : DlCreateGiveUp(b)
    \/ \E b \in dn_buf : DlYield(b)
    \/ DlGetPartIssue
    \/ DlGetPartOk
    \/ DlGetPartErr
    \/ DlGetPartPanic
    \/ DlStreamEnd
    \/ \E c \in dn_copies : DlCopy(c)
    \/ DlEnd

SpecDownload == DownloadInit /\ [][DownloadNext]_vars

\* The download of an archive as an upload leaves it (every line of the
\* manifest parses, every object has the length its line gives), from a store
\* that never fails, into a directory in which one of the paths exists
DlExisting == [path \in {DlPathB} |-> << 9 >>]

DupStores ==
    { st \in DlStores :
        LET ls == Lines(S3GetObject(st, manifest_key(S3_PREFIX))) IN
        \A i \in 1..Len(ls) :
            /\ IsSome(ParseLine(ls[i]))
            /\ SumLen(st[data_key(S3_PREFIX, Unwrap(ParseLine(ls[i])).path)].parts)
                  = Unwrap(ParseLine(ls[i])).size }

DuplicateInit ==
    /\ RetryIdle
    /\ ChunkerIdle
    /\ ChanExecIdle
    /\ UploadIdle
    /\ s3_faults = FALSE
    /\ s3_uploads = << >>
    /\ src_files = {}
    /\ s3_objects \in DupStores
    /\ dn_cfg \in DnConfigs
    /\ dst = DlExisting
    /\ dn_lines = << >>
    /\ dn_pulled = 0
    /\ dn_buf = {}
    /\ dn_cur = None
    /\ dn_copies = {}
    /\ dn_gets = << >>
    /\ dn_result = "manifest"

DuplicateNext ==
    \/ DlGetManifestOk
    \/ DlPull
    \/ \E b \in dn_buf : DlCreateOk(b)
    \/ \E b \in dn_buf : DlCreateErr(b)
    \/ \E b \in dn_buf : DlCreateGiveUp(b)
    \/ \E b \in dn_buf : DlYield(b)
    \/ DlGetPartIssue
    \/ DlGetPartOk
    \/ DlStreamEnd
    \/ \E c \in dn_copies : DlCopy(c)
    \/ DlEnd

SpecDuplicate == DuplicateInit /\ [][DuplicateNext]_vars

(***************************************************************************)
(* Properties                                                              *)
(***************************************************************************)
CeilDiv(a, b) == (a + b - 1) \div b
Range(s) == { s[i] : i \in 1..Len(s) }
ChunkRange(c) == c.offset..(c.offset + c.len - 1)

\* str::splitn(2, sep): the text before the first sep and the text after it
RECURSIVE SplitFirstAcc(_, _, _)
SplitFirstAcc(s, sep, cur) ==
    IF s = << >> THEN << cur >>
    ELSE IF Head(s) = sep THEN << cur, Tail(s) >>
    ELSE SplitFirstAcc(Tail(s), sep, Append(cur, Head(s)))
SplitFirst(s, sep) == SplitFirstAcc(s, sep, << >>)

DownloadEnded == dn_result \in {"ok", "err", "panic"}
Restored(f) == f.path \in DOMAIN dst /\ dst[f.path] = FileBytes(f)

\* C1: round trip. For every set of regular files D, every part_size >= 1 and
\* every interleaving, against a store that never fails, when the upload
\* followed by the download into an empty directory has ended, every file of D
\* is at the same path in the destination with the same length and the same
\* bytes.
C1_RoundTrip ==
    DownloadEnded => \A f \in src_files : Restored(f)

\* C2: whenever a per-file upload passes a parts list to CompleteMultipartUpload,
\* whatever the order the UploadPart tasks finished in, the list is strictly
\* ascending by part_number, holds exactly the numbers 1..N of the N parts the
\* iterator yielded, and each entry carries the e_tag the store returned for
\* the UploadPart of that part_number.
C2_CompleteParts ==
    \A path \in DOMAIN up :
        IsSome(up[path].complete_req) =>
            LET req == Unwrap(up[path].complete_req)
                N == Len(up[path].chunks)
            IN  /\ Len(req.parts) = N
                /\ \A i \in 1..N :
                      /\ req.parts[i].part_number = i
                      /\ i \in DOMAIN s3_uploads[req.upload_id].parts
                      /\ req.parts[i].e_tag = s3_uploads[req.upload_id].parts[i].e_tag
                      /\ req.parts[i].e_tag =
                            ETag(ChunkBytes(FileBytes(EntryOf(path)), up[path].chunks[i]))

\* C2 witness: a parts list was passed to Complete for a file whose parts
\* finished out of order
C2_Witness ==
    \E path \in DOMAIN up :
        /\ IsSome(up[path].complete_req)
        /\ Len(up[path].completed_parts) >= 2
        /\ up[path].completed_parts[1].part_number > up[path].completed_parts[2].part_number

\* C3: for a file of size >= 1 and a part_size >= 1 the parts iterator yields
\* exactly N = ceil(size / part_size) parts, numbered 1..N in yield order; parts
\* 1..N-1 have length part_size and part N has length size - (N-1) * part_size,
\* which is in 1..part_size: no trailing empty part.
C3_PartsOfFile ==
    (ck_mode = "parts" /\ ck_len >= 1) =>
        LET N == CeilDiv(ck_len, ck_pb.part_size) IN
        /\ Len(ck_issued) <= N
        /\ ck_done => Len(ck_issued) = N
        /\ \A i \in 1..Len(ck_issued) :
              /\ i < N => ck_issued[i].len = ck_pb.part_size
              /\ i = N => /\ ck_issued[i].len = ck_len - (N - 1) * ck_pb.part_size
                          /\ ck_issued[i].len \in 1..ck_pb.part_size
              /\ ck_issued[i].offset = (i - 1) * ck_pb.part_size

\* C3 witness: the iterator is exhausted on a size that is an exact multiple of
\* part_size, with more than one part
C3_Witness ==
    /\ ck_mode = "parts" /\ ck_done
    /\ ck_len = 2 * ck_pb.part_size
    /\ Len(ck_issued) = 2

EmptyFiles == { path \in DOMAIN up : EntryOf(path).size = 0 }

\* C4, as the specification states it: for a file of size 0 the parts iterator produces zero parts,
\* no UploadPart is issued for it and Complete gets an empty parts list.
C4_EmptyFileNoParts ==
    \A path \in EmptyFiles :
        /\ up[path].chunks = << >>
        /\ up[path].upload_part_calls = {}
        /\ IsSome(up[path].complete_req) => Unwrap(up[path].complete_req).parts = << >>

\* C4 amended: for a file of size 0 the parts iterator produces exactly one
\* part, number 1, of length 0; one UploadPart with an empty body is issued for
\* it between Create and Complete, and Complete gets the one-entry parts list
\* of that part.
C4_EmptyFileOnePart ==
    \A path \in EmptyFiles :
        /\ up[path].pc = "parts" =>
              /\ up[path].chunks = << [offset |-> 0, len |-> 0] >>
              /\ ~IsSome(next(up[path].pb).item)
        /\ up[path].upload_part_calls \subseteq {1}
        /\ IsSome(up[path].complete_req) =>
              /\ up[path].upload_part_calls = {1}
              /\ s3_uploads[up[path].upload_id].parts[1].body = << >>
              /\ Unwrap(up[path].complete_req).parts =
                    << [e_tag |-> ETag(<< >>), part_number |-> 1] >>

\* C4 witness: the upload of an empty file has completed
C4_Witness ==
    \E path \in EmptyFiles : up[path].pc = "done"

ManifestObject == s3_objects[manifest_key(S3_PREFIX)].parts[1]
LinePair(line) ==
    LET f == SplitFirst(line, TAB) IN FileEntry_new(f[2], ParseUsize(f[1]))

RetryEnded == rt_pc \in {"ok", "err", "panic"}

\* C6: an operation that fails k < retry_max times and then succeeds makes
\* with_retry return that success after exactly k+1 invocations and k sleeps;
\* one that always fails makes it return the error of the last invocation after
\* exactly retry_max + 1 invocations and retry_max sleeps; no invocation follows
\* a success.
C6_RetryEnvelope ==
    /\ (rt_fails # ALWAYS /\ rt_fails < rt_params.retry_max /\ RetryEnded) =>
          /\ rt_pc = "ok"
          /\ rt_calls = rt_fails + 1
          /\ rt_ret = rt_fails + 1
          /\ Len(rt_sleeps) = rt_fails
    /\ (rt_fails = ALWAYS /\ RetryEnded) =>
          /\ rt_pc = "err"
          /\ rt_calls = rt_params.retry_max + 1
          /\ rt_ret = rt_calls
          /\ Len(rt_sleeps) = rt_params.retry_max
    /\ (rt_fails # ALWAYS /\ rt_pc # "idle") => rt_calls <= rt_fails + 1
    /\ rt_pc = "ok" => ~ENABLED RetryNext

\* C7, as the specification states it: with retry_max=10, wait_base=1, wait_max=5 the sleeps of an
\* always-failing operation are 1, 1, 1, 1, 1, 5, 5, 5, 5, 5 seconds.
C7_Schedule_1_5 ==
    (rt_params = SystemParams /\ rt_fails = ALWAYS /\ rt_pc = "err") =>
        rt_sleeps = << 1, 1, 1, 1, 1, 5, 5, 5, 5, 5 >>

\* C7 amended: with retry_max=10, wait_base=1, wait_max=5 the sleeps of an
\* always-failing operation are ten sleeps of 1 second, each being
\* min(wait_max, wait_base^attempt) = min(5, 1^attempt) = 1.
C7_Schedule_ones ==
    (rt_params = SystemParams /\ rt_fails = ALWAYS) =>
        /\ \A i \in 1..Len(rt_sleeps) :
              /\ rt_sleeps[i] = 1
              /\ rt_sleeps[i] = Min(WAIT_MAX, 1)
              /\ ~WaitOverflows(WAIT_BASE, i)
        /\ rt_pc = "err" => Len(rt_sleeps) = RETRY_MAX

\* C7 witness: the envelope gave up on an always-failing operation under the
\* system's parameters
C7_Witness ==
    rt_params = SystemParams /\ rt_fails = ALWAYS /\ rt_pc = "err" /\ Len(rt_sleeps) = 10

\* the chunker's offset: that of the live Chunker, else the end of the last chunk
CkOffset ==
    IF IsSome(ck_pb.mmap_chunker) THEN Unwrap(ck_pb.mmap_chunker).offset
    ELSE IF ck_issued = << >> THEN 0
    ELSE ck_issued[Len(ck_issued)].offset + ck_issued[Len(ck_issued)].len

\* C8: for a Chunker over a handle of length len and any sequence of take_chunk
\* calls, 0 <= offset <= len and size() = len - offset; each chunk starts where
\* the previous one ended; no two issued chunks overlap; and when the upload
\* parts iterator is exhausted the chunks cover [0, len) exactly once.
C8_ChunkerDiscipline ==
    (ck_mode # "idle") =>
        /\ 0 <= CkOffset /\ CkOffset <= ck_len
        /\ IsSome(ck_pb.mmap_chunker) =>
              /\ Unwrap(ck_pb.mmap_chunker).len = ck_len
              /\ size(Unwrap(ck_pb.mmap_chunker)) = ck_len - CkOffset
              /\ size(Unwrap(ck_pb.mmap_chunker)) >= 0
        /\ \A i \in 1..Len(ck_issued) :
              /\ ck_issued[i].len >= 0
              /\ ck_issued[i].offset = IF i = 1 THEN 0
                                       ELSE ck_issued[i - 1].offset + ck_issued[i - 1].len
              /\ ck_issued[i].offset + ck_issued[i].len <= ck_len
        /\ ck_issued # << >> =>
              ck_issued[Len(ck_issued)].offset + ck_issued[Len(ck_issued)].len = CkOffset
        /\ \A i, j \in 1..Len(ck_issued) :
              i # j => ChunkRange(ck_issued[i]) \cap ChunkRange(ck_issued[j]) = {}
        /\ ck_done =>
              \A b \in 0..(ck_len - 1) :
                  Cardinality({ i \in 1..Len(ck_issued) : b \in ChunkRange(ck_issued[i]) }) = 1

\* C8 witness: two chunks were taken by take_chunk calls of different
\* lengths and a third call asked for more than is left
C8_Witness ==
    /\ ck_mode = "free" /\ ck_panicked
    /\ Len(ck_issued) = 2
    /\ ck_issued[1].len = 1 /\ ck_issued[2].len = 2

\* the entries of the manifest the download read
DlManifestEntries ==
    { Unwrap(ParseLine(dn_lines[i])) :
        i \in { j \in 1..Len(dn_lines) : IsSome(ParseLine(dn_lines[j])) } }
\* the sum of the content_length values of the parts of the entry's object
StoredLength(e) == SumLen(s3_objects[data_key(S3_PREFIX, e.path)].parts)

\* C9: a download of a file whose parts' content_length values do not sum to
\* the manifest's size, larger or smaller, never finishes successfully: the
\* pipeline returns success only if for every entry the sum equals the size.
C9_SumMismatchFatal ==
    dn_result = "ok" =>
        \A e \in DlManifestEntries :
            /\ data_key(S3_PREFIX, e.path) \in DOMAIN s3_objects
            /\ StoredLength(e) = e.size

\* C10: at most part_concurrency part-upload workers (UploadPart calls with
\* their retry sleeps) are in flight, across all files.
C10_PartConcurrency ==
    up_result # "idle" => Cardinality(workers) <= cfg.part_concurrency

\* C10 witness: part_concurrency = 2 workers are running, for parts of two
\* files, while a third task waits in the channel
C10_Witness ==
    /\ cfg.part_concurrency = 2
    /\ Cardinality(workers) = 2
    /\ \E w1, w2 \in workers : w1.path # w2.path
    /\ queue # << >>

\* the part tasks resident between dispatch and completion: those waiting in
\* the channel, those the workers run, and those whose submission is suspended
ResidentParts == Len(queue) + Cardinality(workers) + Cardinality(Blocked(up))

\* the part submissions of a file that are outstanding
Outstanding(path) == up[path].sending \cup up[path].waiting

\* what the queue, the workers and the per-file buffers bound, and what a full
\* queue does to a submission
QueueAndWorkersBounded ==
    up_result = "pending" =>
        /\ Len(queue) <= cfg.part_queue_size
        /\ Cardinality(workers) <= cfg.part_concurrency
        /\ \A path \in SrcPaths : Cardinality(Outstanding(path)) <= INNER_BUFFER
SubmissionSuspends ==
    /\ Len(queue') > Len(queue) => Len(queue) < cfg.part_queue_size
    /\ \A path \in SrcPaths : \A n \in up[path].sending :
          (up_result' = "pending" /\ n \notin up'[path].sending)
              => Len(queue) < cfg.part_queue_size

\* C11, as the specification states it: at most Q + P + 8 part tasks are
\* resident between dispatch and completion (at most Q in the queue, at most P
\* run by workers), a submission made while the queue holds Q entries suspends
\* until a slot is freed, and a file has at most 8 submissions outstanding.
C11_Backpressure_QP8 ==
    /\ [](QueueAndWorkersBounded)
    /\ [](up_result = "pending" =>
            ResidentParts <= cfg.part_queue_size + cfg.part_concurrency + INNER_BUFFER)
    /\ [][SubmissionSuspends]_vars

\* C11, amended: with Q, P, F >= 1, at most 8 * F part tasks are resident
\* between dispatch and completion, 8 for each of the at most F files in
\* progress; of these at most Q wait in the queue and at most P are run by
\* workers, the others being suspended in their submission; a submission made
\* while the queue holds Q entries suspends until a slot is freed; a file has at
\* most 8 submissions outstanding.
C11_Backpressure_8F ==
    /\ [](QueueAndWorkersBounded)
    /\ [](up_result = "pending" =>
            /\ ResidentParts <= INNER_BUFFER * cfg.file_concurrency
            /\ ResidentParts <= INNER_BUFFER * Cardinality(InProgress))
    /\ [][SubmissionSuspends]_vars

\* C11 witness: one file has 8 submissions outstanding and a part not yet
\* submitted, another file has 3 more; the queue is full, a worker runs, and
\* the 11 resident part tasks are more than Q + P + 8
C11_Witness ==
    /\ up_result = "pending"
    /\ \E path \in SrcPaths :
          /\ Cardinality(Outstanding(path)) = INNER_BUFFER
          /\ IsSome(next(up[path].pb).item)
    /\ Len(queue) = cfg.part_queue_size
    /\ Cardinality(workers) = cfg.part_concurrency
    /\ Blocked(up) # {}
    /\ ResidentParts > cfg.part_queue_size + cfg.part_concurrency + INNER_BUFFER

\* the files whose upload has started (open, CreateMultipartUpload) and whose
\* CompleteMultipartUpload has not returned
FilesInProgress == { path \in SrcPaths : up[path].pc \in {"create", "parts"} }

\* C12: with file_concurrency = F >= 1, at most F files are in progress, a file
\* being in progress from the start of its open / CreateMultipartUpload until
\* its CompleteMultipartUpload has returned.
C12_FileConcurrency ==
    (up_result # "idle" /\ cfg.file_concurrency >= 1)
        => Cardinality(FilesInProgress) <= cfg.file_concurrency

\* C12 witness: file_concurrency = 1, one file is in progress with its parts
\* being uploaded, and another file of the walk waits for its turn
C12_Witness ==
    /\ up_result = "pending"
    /\ cfg.file_concurrency = 1
    /\ to_walk # {}
    /\ \E path \in SrcPaths : up[path].pc = "parts" /\ workers # {}

\* C13: every S3 call is wrapped by the retry envelope: a single transient
\* failure of CreateMultipartUpload, UploadPart, CompleteMultipartUpload,
\* PutObject or GetObject does not fail the pipeline; the call is re-issued, and
\* its error is returned only after retry_max retries, i.e. retry_max + 1
\* invocations.
C13_EveryCallRetried ==
    (IsSome(err) /\ Unwrap(err).kind = "Rusoto")
        => Unwrap(err).invocations = RETRY_MAX + 1

\* C14: when the download reaches a manifest entry whose destination path
\* already exists, the pipeline returns an I/O error and never success, the
\* file that was there keeps its bytes and its length, no GetObject is issued
\* for that entry's data key, and no part-copy task is started once the
\* failure is surfaced. The existing file is the one at DlPathB.
C14_DuplicateTarget ==
    /\ DlPathB \in DOMAIN dst /\ dst[DlPathB] = DlExisting[DlPathB]
    /\ (dn_result = "ok" => \A e \in DlManifestEntries : e.path # DlPathB)
    /\ (dn_result = "err" =>
          /\ Unwrap(err).kind = "Io"
          /\ dn_buf = {} /\ dn_cur = None /\ dn_copies = {})
    /\ (IsSome(dn_cur) => Unwrap(dn_cur).path # DlPathB)
    /\ \A c \in dn_copies : c.path # DlPathB

\* C14 witness: the manifest names the existing path and another file; the
\* pipeline has returned the I/O error after the other file was written
C14_Witness ==
    /\ dn_result = "err"
    /\ \E e \in DlManifestEntries : e.path = DlPathB
    /\ DlPathA \in DOMAIN dst /\ Len(dst[DlPathA]) > 0 /\ dst[DlPathA] # Zeros(Len(dst[DlPathA]))

\* C15: when every S3 call succeeds and every future that can make a step is
\* polled eventually, the upload returns success, for every number of files and
\* parts and every Q, P, F >= 1: once the main task has finished, every
\* Executor clone has been released (no submission is outstanding), the Pump
\* drains the queue and ends, and the join returns.
C15_UploadTerminates ==
    /\ <>(up_result = "ok")
    /\ [](main_pc = "ok" => Blocked(up) = {} /\ \A path \in SrcPaths : up[path].waiting = {})
    /\ (main_pc = "ok" ~> (pump_pc = "ok" /\ queue = << >> /\ workers = {}))

\* C15 witness: the upload of two files, one of several parts, has returned Ok
\* with a queue of one slot
C15_Witness ==
    /\ up_result = "ok" /\ main_pc = "ok" /\ pump_pc = "ok"
    /\ cfg.part_queue_size = 1
    /\ Cardinality(src_files) = 2
    /\ \E path \in SrcPaths : Len(up[path].chunks) >= 2

\* the step in which the main task fails on a call of its own (not on the
\* error a part task returned)
MainFails ==
    /\ main_pc = "files" /\ main_pc' = "err"
    /\ Unwrap(err').call # "UploadPart"

\* C16, as the specification states it: when the main task fails while part
\* tasks are in flight in the Pump, these run to completion and the Pump
\* drains before the join returns the error: the join returns an error of the
\* main task only when no part task is queued or running.
C16_DrainBeforeReturn ==
    [][(MainFails /\ up_result' = "err") => (workers = {} /\ queue = << >>)]_vars

\* C16, amended: when the main task fails, the join returns that error at
\* once; the Pump is dropped with the part tasks that are queued or in flight,
\* which do not run to completion: nothing more is stored after the failure.
C16_ReturnAtOnce ==
    /\ [][MainFails =>
            /\ up_result' = "err" /\ pump_pc' = "dropped"
            /\ workers' = {} /\ queue' = << >>
            /\ s3_uploads' = s3_uploads /\ s3_objects' = s3_objects]_vars
    /\ [][up_result = "err" =>
            /\ up_result' = "err" /\ err' = err
            /\ s3_uploads' = s3_uploads /\ s3_objects' = s3_objects]_vars

\* C16 witness: the join has returned the error of a CreateMultipartUpload
\* while a part of another file was being uploaded by a worker; the part was
\* never stored
C16_Witness ==
    /\ up_result = "err"
    /\ Unwrap(err).call = "CreateMultipartUpload"
    /\ \E path \in SrcPaths :
          \E n \in up[path].upload_part_calls \cap up[path].waiting :
              n \notin DOMAIN s3_uploads[up[path].upload_id].parts


\* a worker produced its task's output and found the reply receiver dropped
ReplyUndelivered == \E d \in ce_done : ~d.delivered

\* C17 (as stated): a worker whose reply cannot be delivered because the
\* submitter has gone away ignores the failure; the pump does not return an
\* error because of it.
C17_ReplyFailureIgnored == ReplyUndelivered => ce_pump # "err"

\* C17 (amended): the worker future returns the undelivered output as its Err,
\* and the driver of the pump, which ends with the first Err of a worker
\* future, returns an error exactly when some reply could not be delivered;
\* the pairs still queued and the other workers are dropped with it.
C17_ReplyFailureFailsPump ==
    /\ ReplyUndelivered <=> ce_pump = "err"
    /\ ce_pump = "err" => ce_queue = << >> /\ ce_workers = {}

C17_Witness ==
    /\ ce_pump = "err"
    /\ \E d \in ce_done : ~d.delivered /\ ce_sub[d.cb].pc = "gone"
    /\ \E s \in Clones : ce_sub[s].pc = "ret" /\ ce_sub[s].ret = Some(RecvErr)

IsPrefix(a, b) == Len(a) <= Len(b) /\ \A i \in 1..Len(a) : a[i] = b[i]

\* C18: with several ChanExec clones submitting concurrently, a call of execute
\* that returns Ok returns the output of the task it submitted, every task that
\* entered the queue is handed to a worker (run) at most once, and the tasks
\* are handed to workers in the order in which they entered the queue.
C18_ResultDelivery ==
    /\ \A s \in Clones :
          (ce_sub[s].pc = "ret" /\ ce_sub[s].ret # None /\ ce_sub[s].ret[1].kind = "Ok")
             => ce_sub[s].ret = Some(OkRet(Output(TaskOf(s))))
    /\ \A i, j \in 1..Len(ce_started) : ce_started[i] = ce_started[j] => i = j
    /\ \A d, e \in ce_done : d.task = e.task => d = e
    /\ \A d \in ce_done : \E i \in 1..Len(ce_started) : ce_started[i] = d.task
    /\ IsPrefix(ce_started, ce_enqueued)

C18_Witness ==
    /\ \A s \in Clones : ce_sub[s].ret = Some(OkRet(Output(TaskOf(s))))
    /\ Len(ce_started) = MaxClones
    /\ ce_started # [i \in 1..MaxClones |-> TaskOf(i)]
    /\ ce_cfg.limit = 2 /\ ce_cfg.queue_size = 2

StartedTasks == { ce_started[i] : i \in 1..Len(ce_started) }
ProducedTasks == { d.task : d \in ce_done }

\* the task of s was handed to a worker, and the worker was dropped before the
\* task produced its output
WorkerDropped(s) ==
    /\ TaskOf(s) \in StartedTasks
    /\ TaskOf(s) \notin ProducedTasks
    /\ \A w \in ce_workers : w.cb # s

\* C19: a call of execute made after the pump was dropped returns the Send
\* error and its task is never run; a call whose task was dequeued and whose
\* worker is dropped before the task produced a value returns the Recv error;
\* in neither case does the call return Ok, and in neither does it wait for ever.
C19_ExecutorErrors ==
    /\ [](\A s \in Clones :
            /\ ce_sub[s].pump_at_call = "dropped"
                 => /\ ce_sub[s].pc = "ret"
                    /\ ce_sub[s].ret = Some(SendErr(TaskOf(s)))
                    /\ TaskOf(s) \notin StartedTasks
                    /\ TaskOf(s) \notin ProducedTasks
            /\ (WorkerDropped(s) /\ ce_sub[s].pc = "ret")
                 => ce_sub[s].ret = Some(RecvErr))
    /\ \A s \in Clones :
          (WorkerDropped(s) /\ ce_sub[s].pc = "waiting")
             ~> (ce_sub[s].ret = Some(RecvErr) \/ ce_sub[s].pc = "gone")

C19_Witness ==
    /\ ce_pump = "dropped"
    /\ \E s \in Clones : /\ ce_sub[s].pump_at_call = "dropped"
                         /\ ce_sub[s].ret = Some(SendErr(TaskOf(s)))
    /\ \E s \in Clones : /\ WorkerDropped(s)
                         /\ ce_sub[s].pump_at_call = "run"
                         /\ ce_sub[s].ret = Some(RecvErr)

\* the UploadPart requests of the workers that are running
UploadPartRequests ==
    { upload_part(w.path, w.upload_id, w.part_number,
                  ChunkBytes(FileBytes(EntryOf(w.path)), w.chunk)) : w \in workers }

\* the upload of the store that the CreateMultipartUpload of path opened
CreatedFor(path, upload_id) ==
    /\ up[path].pc \in {"parts", "done"}
    /\ upload_id = up[path].upload_id
    /\ upload_id \in DOMAIN s3_uploads
    /\ s3_uploads[upload_id].key = data_key(S3_PREFIX, path)

\* C20: for every file, CreateMultipartUpload has succeeded before any
\* UploadPart of the file is issued; CompleteMultipartUpload is issued only when
\* UploadPart has succeeded for every part number in 1..N (N the number of
\* parts the file's iterator yields, 1 for an empty file); every UploadPart and
\* the CompleteMultipartUpload quote the upload_id that the file's
\* CreateMultipartUpload returned, and the file's key; no upload is ever
\* aborted: an upload of the store and its stored parts are never discarded.
C20_ProtocolOrder ==
    /\ [](\A path \in DOMAIN up :
            LET N == IF EntryOf(path).size = 0 THEN 1
                     ELSE CeilDiv(EntryOf(path).size, cfg.part_size)
            IN  /\ (up[path].upload_part_calls # {} \/ up[path].sending # {}
                                                    \/ up[path].waiting # {})
                      => CreatedFor(path, up[path].upload_id)
                /\ \A i \in 1..Len(queue) :
                      queue[i].path = path => CreatedFor(path, queue[i].upload_id)
                /\ \A w \in workers :
                      w.path = path
                        => /\ CreatedFor(path, w.upload_id)
                           /\ w.part_number \in up[path].upload_part_calls
                           /\ w.part_number \in 1..N
                /\ \A req \in UploadPartRequests :
                      req.bucket_key = data_key(S3_PREFIX, path)
                        => /\ req.upload_id = up[path].upload_id
                           /\ s3_uploads[req.upload_id].key = req.bucket_key
                /\ IsSome(up[path].complete_req)
                      => LET req == Unwrap(up[path].complete_req)
                         IN  /\ CreatedFor(path, req.upload_id)
                             /\ req.key = data_key(S3_PREFIX, path)
                             /\ DOMAIN s3_uploads[req.upload_id].parts = 1..N
                             /\ up[path].upload_part_calls = 1..N
                /\ \A other \in DOMAIN up :
                      (other # path /\ up[path].upload_id # 0)
                         => up[other].upload_id # up[path].upload_id)
    /\ [][/\ Len(s3_uploads') >= Len(s3_uploads)
          /\ \A u \in DOMAIN s3_uploads :
                /\ s3_uploads'[u].key = s3_uploads[u].key
                /\ DOMAIN s3_uploads[u].parts \subseteq DOMAIN s3_uploads'[u].parts]_vars

C20_Witness ==
    /\ Cardinality(DOMAIN up) = 2
    /\ \A path \in DOMAIN up :
          /\ up[path].pc = "done"
          /\ IsSome(up[path].complete_req)
          /\ Cardinality(up[path].upload_part_calls) >= 2
    /\ \E path \in DOMAIN up : up[path].upload_id = 2 /\ path = Head(done_order).path

\* PutObject of the manifest was issued: it returned Ok, or it returned the Err
\* the pipeline ended with
PutManifestIssued ==
    \/ main_pc = "ok"
    \/ err # None /\ err[1].call = "PutObject"

\* the pipeline ended with the Err of a call of some per-file upload
PerFileFailed ==
    /\ err # None
    /\ err[1].call \in {"CreateMultipartUpload", "UploadPart", "CompleteMultipartUpload"}

\* C21: PutObject of the manifest is issued at most once in an upload run, and
\* only after CompleteMultipartUpload has succeeded for every walked file; when
\* a per-file upload fails, PutObject of the manifest is never issued.
C21_ManifestOrdering ==
    /\ [](/\ (PutManifestIssued \/ manifest_key(S3_PREFIX) \in DOMAIN s3_objects)
             => /\ to_walk = {}
                /\ \A path \in SrcPaths :
                      /\ up[path].pc = "done"
                      /\ data_key(S3_PREFIX, path) \in DOMAIN s3_objects
          /\ (err # None /\ err[1].call = "PutObject") => err[1].invocations = 1
          /\ PerFileFailed => /\ ~(main_pc = "ok")
                              /\ manifest_key(S3_PREFIX) \notin DOMAIN s3_objects)
    /\ [][/\ PutManifestIssued => (PutManifestIssued' /\ s3_objects' = s3_objects /\ err' = err)
          /\ PerFileFailed => (PerFileFailed' /\ s3_objects' = s3_objects)]_vars

C21_Witness ==
    /\ Cardinality(SrcPaths) = 2
    /\ up_result = "ok"
    /\ manifest_key(S3_PREFIX) \in DOMAIN s3_objects
    /\ \A path \in SrcPaths : Len(up[path].chunks) >= 1

\* C22: when an UploadPart, CreateMultipartUpload or CompleteMultipartUpload of
\* some file still fails after its retry_max retries, the file's
\* CompleteMultipartUpload is not issued after the failure, the per-file task
\* fails (the file is never done), and the upload returns an error, never Ok.
C22_UploadErrorPropagation ==
    /\ [](PerFileFailed
            => /\ err[1].invocations = RETRY_MAX + 1
               /\ up_result = "err"
               /\ main_pc = "err"
               /\ \E path \in SrcPaths :
                     /\ up[path].pc \in {"create", "parts"}
                     /\ data_key(S3_PREFIX, path) \notin DOMAIN s3_objects
                     /\ err[1].call # "CompleteMultipartUpload"
                           => up[path].complete_req = None)
    /\ [][PerFileFailed => (up' = up /\ up_result' = "err" /\ err' = err
                            /\ s3_uploads' = s3_uploads)]_vars

C22_Witness ==
    /\ err # None /\ err[1].call = "UploadPart"
    /\ err[1].invocations = RETRY_MAX + 1
    /\ up_result = "err"
    /\ \E path \in SrcPaths : up[path].pc = "done"
    /\ \E path \in SrcPaths : up[path].pc = "parts" /\ up[path].completed_parts # << >>

\* the part numbers GetObject was asked for under a key, in the order asked
GetsOf(key) ==
    LET sel == SelectSeq(dn_gets, LAMBDA g : g.key = key)
    IN  [i \in 1..Len(sel) |-> sel[i].part_number]

RECURSIVE PartsLenSum(_, _)
PartsLenSum(ps, n) == IF n = 0 THEN 0 ELSE Len(ps[n]) + PartsLenSum(ps, n - 1)

DlKeys == { data_key(S3_PREFIX, path) : path \in {DlPathA, DlPathB} }

\* C23: for every file GetObject with part_number 1 is issued once, and its
\* answer gives parts_count and the body of the first chunk; GetObject is then
\* issued once for each of 2..parts_count in ascending order and for none
\* beyond; the body of part i goes to the chunk at offset
\* sum(content_length of parts 1..i-1), of length content_length_i.
C23_PartFetchOrder ==
    /\ \A key \in DlKeys :
          LET gets == GetsOf(key) IN
          /\ \A i \in 1..Len(gets) : gets[i] = i
          /\ Len(gets) >= 2 => /\ key \in DOMAIN s3_objects
                               /\ Len(gets) <= Len(s3_objects[key].parts)
    /\ \A g \in Range(dn_gets) : g.key \in DlKeys
    /\ IsSome(dn_cur) =>
          LET cur == Unwrap(dn_cur)
              gets == GetsOf(cur.key)
          IN  /\ cur.pending => (Len(gets) = NextPartNumber(cur))
              /\ ~cur.pending => (Len(gets) = NextPartNumber(cur) - 1)
              /\ IsSome(cur.state) =>
                    Unwrap(cur.state).parts_count = Len(s3_objects[cur.key].parts)
    /\ \A c \in dn_copies :
          LET key == data_key(S3_PREFIX, c.path)
              ps == s3_objects[key].parts
          IN  /\ c.part_number \in 1..Len(GetsOf(key))
              /\ c.body = ps[c.part_number]
              /\ c.chunk.offset = PartsLenSum(ps, c.part_number - 1)
              /\ c.chunk.len = Len(ps[c.part_number])
    /\ dn_result = "ok" =>
          \A i \in 1..Len(dn_lines) :
              LET key == data_key(S3_PREFIX, Unwrap(ParseLine(dn_lines[i])).path)
              IN  Len(GetsOf(key)) = Len(s3_objects[key].parts)

C23_Witness ==
    /\ dn_result = "ok"
    /\ Len(dn_lines) = 2
    /\ \E key \in DlKeys : GetsOf(key) = << 1, 2 >>
    /\ \A key \in DlKeys : Len(GetsOf(key)) >= 1

\* the part operations in flight: the copy futures that are running, and the
\* GetObject of a part that was issued and is not answered yet
PartsInFlight ==
    Cardinality(dn_copies)
      + (IF IsSome(dn_cur) /\ Unwrap(dn_cur).pending THEN 1 ELSE 0)

\* C24: in every reachable state of the download pipeline with
\* part_concurrency = P >= 1 at most P part operations are in flight, counting
\* the running copy tasks and a GetObject of a part issued whose copy has not
\* finished.
C24_DownloadPartConcurrency == PartsInFlight <= dn_cfg.part_concurrency

C24_Witness ==
    /\ dn_cfg.part_concurrency = 2
    /\ PartsInFlight = 2
    /\ IsSome(dn_cur) /\ Unwrap(dn_cur).pending
    /\ \E c \in dn_copies : c.path # Unwrap(dn_cur).path

\* the files in flight in the download: the destination file is created, and
\* its part stream is not exhausted or a copy of one of its parts is running
DlFilesInFlight ==
    { b.entry.path : b \in { x \in dn_buf : x.st = "ready" } }
      \cup (IF IsSome(dn_cur) THEN {Unwrap(dn_cur).path} ELSE {})
      \cup { c.path : c \in dn_copies }

\* C25: in every reachable state of the download pipeline with
\* file_concurrency = F >= 1 at most F files are in flight, a file being in
\* flight from the creation of its destination file until all of its part
\* copies have finished.
C25_DownloadFileConcurrency == Cardinality(DlFilesInFlight) <= dn_cfg.file_concurrency

\* C26: a failure of a local filesystem operation is surfaced without being
\* retried: in the download pipeline the creation of a destination file is
\* attempted once per manifest entry, and its failure ends the run at once,
\* with no retry sleep.
C26_NoLocalRetry ==
    /\ \A b \in dn_buf : b.st # "retry"
    /\ (err # None /\ err[1].kind = "Io") => err[1].invocations = 1

\* C27: for every size >= 0 and every path without a newline, paths with tabs
\* included, the download's parser turns the manifest line the upload wrote for
\* (size, path) into a FileEntry of the same size and the same path.
C27_ManifestLineRoundTrip ==
    \A b \in dn_buf :
        /\ b.idx \in 1..Len(done_order)
        /\ b.entry = done_order[b.idx]

\* what is left for the parts iterator to yield: nothing when it has ended
PartsLeft(pb) == IF IsSome(pb.mmap_chunker) THEN size(Unwrap(pb.mmap_chunker)) + 1 ELSE 0

\* C28: the upload parts iterator terminates for every file size and every
\* part_size the command line accepts, 0 included: every part it yields brings
\* it nearer to its end, so it yields at most as many parts as the file has
\* bytes (one for an empty file) and then ends.
C28_PartsTerminate ==
    /\ [][(ck_mode = "parts" /\ ck_issued' # ck_issued)
            => PartsLeft(ck_pb') < PartsLeft(ck_pb)]_vars
    /\ [](ck_mode = "parts" => Len(ck_issued) <= (IF ck_len = 0 THEN 1 ELSE ck_len))

====
